---- MODULE Spec2Model ----
(***************************************************************************)
(* sqlterm: the cross-backend data/schema abstraction layer.               *)
(*                                                                         *)
(*   - sqlterm-core: Value, QueryResult (result.rs), SqlTermError          *)
(*     (error.rs), the capability traits (connection.rs, query.rs,         *)
(*     schema.rs) with the default SchemaInspector::get_table_details.     *)
(*   - sqlterm-mysql / sqlterm-postgres / sqlterm-sqlite: the adapters     *)
(*     (connection.rs, query.rs).                                          *)
(*                                                                         *)
(* The module holds one state machine per part of the program, all over    *)
(* one set of variables; each leaves the variables of the others at their  *)
(* idle values:                                                            *)
(*   SpecResult   QueryResult::new / QueryResult::truncated                *)
(*   SpecDecode   the per-cell value decoding of the six execute_query     *)
(*                implementations                                          *)
(*   SpecConn     the life cycle of one DatabaseConnection object and the  *)
(*                QueryExecutor hooks                                      *)
(*   SpecDetails  the default get_table_details composition, one step per  *)
(*                .await                                                   *)
(*   SpecQuery    execute_query as a whole, on a fetched result set        *)
(*   SpecIndexes  the list_indexes implementations                         *)
(*   SpecExport   QueryResult::to_csv / to_tsv                             *)
(*   SpecValidate ConnectionFactory::validate_config                       *)
(*   SpecConfig   SqlTermConfig's connection list and default              *)
(*   SpecManager  the UI ConfigManager's saved connection files            *)
(*   SpecUi       the UI's connect_to_database                             *)
(*   SpecWiden    the integer casts into Value::Integer                    *)
(*   SpecTui      the TUI run loop and handle_event                        *)
(***************************************************************************)
EXTENDS Integers, Sequences, FiniteSets, TLC

VARIABLES
    qr_args,      \* arguments handed to QueryResult::new / ::truncated
    qr,           \* the QueryResult returned, or NoResult
    cell,         \* the raw cell the driver handed to a decoder
    decoded,      \* [path, value, probes] the decoder's output, or NotDecoded
    conn,         \* the connection object: NoConn or [adapter, connected, pool_closed, closes]
    last_op,      \* the last trait method called, and what the backend answers to it
    last_ret,     \* what it returned
    driver_calls, \* the driver primitives the last trait method invoked, in order
    gtd_table,    \* the bare Table record the default get_table_details built
    gtd_pc,       \* position inside the default get_table_details
    gtd_calls,    \* sub-calls invoked so far, in order
    gtd_got,      \* what each invoked sub-call returned, in order
    gtd_ret,      \* what get_table_details returned, or NoRet
    fetch_ret,    \* what the driver's fetch_all answered to an execute_query
    xq,           \* [path, ret] the execute_query that ran and its return value
    catalog,      \* the index catalog of a table: one row per (index, column)
    idx_ret,      \* [impl, indexes] the list_indexes that ran and its Vec<Index>
    ex_in,        \* the QueryResult handed to to_csv / to_tsv
    ex_out,       \* [op, text] the export that ran and the String it returned
    vc_config,    \* the ConnectionConfig handed to validate_config
    vc_ret,       \* what validate_config returned
    stc,          \* the SqlTermConfig: [connections, default_connection]
    stc_call,     \* the last SqlTermConfig method called: [name, arg, ret, before]
    app,          \* the UI state a connection attempt may touch
    ui_call,      \* the last connect_to_database: [variant, config, answers, ret, before]
    files,        \* the connections directory: file name -> stored config
    cm_saved,     \* for each connection name, what was last saved under it
    cm_call,      \* the last ConfigManager method called
    tui,          \* the TUI App fields the run loop and handle_event use
    tui_event,    \* the last event the run loop handled, with the App before it
    wd_in,        \* [site, t, v] an integer a probe of type t extracted
    wd_out        \* the Value stored for it

vars == <<qr_args, qr, cell, decoded, conn, last_op, last_ret, driver_calls,
          gtd_table, gtd_pc, gtd_calls, gtd_got, gtd_ret,
          fetch_ret, xq, catalog, idx_ret, ex_in, ex_out,
          vc_config, vc_ret, stc, stc_call, app, ui_call, files, cm_saved, cm_call,
          tui, tui_event, wd_in, wd_out>>

resultVars  == <<qr_args, qr>>
decodeVars  == <<cell, decoded>>
connVars    == <<conn, last_op, last_ret, driver_calls>>
detailsVars == <<gtd_table, gtd_pc, gtd_calls, gtd_got, gtd_ret>>
queryVars   == <<fetch_ret, xq>>
indexVars   == <<catalog, idx_ret>>
exportVars  == <<ex_in, ex_out>>
validateVars == <<vc_config, vc_ret>>
configVars  == <<stc, stc_call>>
uiVars      == <<app, ui_call>>
managerVars == <<files, cm_saved, cm_call>>
tuiVars     == <<tui, tui_event>>
widenVars   == <<wd_in, wd_out>>
laterVars   == <<validateVars, configVars, uiVars, managerVars, tuiVars, widenVars>>

(***************************************************************************)
(* Bounds of the model.                                                    *)
(***************************************************************************)
MaxRows == 3
MaxTotalRows == 4
MaxLimit == 4
MaxOk == 2
MaxCloses == 3

(***************************************************************************)
(* Option<T> and Result<T, SqlTermError>.                                  *)
(***************************************************************************)
None == [some |-> FALSE]
Some(x) == [some |-> TRUE, val |-> x]
is_some(o) == o.some
unwrap_or(o, d) == IF o.some THEN o.val ELSE d

Ok(x) == [ok |-> TRUE, val |-> x]
Err(kind, msg) == [ok |-> FALSE, kind |-> kind, msg |-> msg]

SqlTermError ==
    {"Connection", "QueryExecution", "Query", "NotImplemented", "SchemaInspection",
     "Authentication", "Network", "Configuration", "Serialization", "Io", "Unknown"}

(***************************************************************************)
(* Value (result.rs): a tag and a payload.  The payload of Unknown and of  *)
(* a formatted String is the sequence of the fragments format!() joins.    *)
(***************************************************************************)
ValueString(s)   == [tag |-> "String", v |-> s]
ValueInteger(i)  == [tag |-> "Integer", v |-> i]
ValueFloat(f)    == [tag |-> "Float", v |-> f]
ValueBoolean(b)  == [tag |-> "Boolean", v |-> b]
ValueDate(s)     == [tag |-> "Date", v |-> s]
ValueDateTime(s) == [tag |-> "DateTime", v |-> s]
ValueTime(s)     == [tag |-> "Time", v |-> s]
ValueNull        == [tag |-> "Null", v |-> <<>>]
ValueUnknown(s)  == [tag |-> "Unknown", v |-> s]

(***************************************************************************)
(* The values a part of the state holds while its state machine is not the *)
(* one being run.                                                          *)
(***************************************************************************)
NoCell == [null |-> TRUE, type_name |-> "", ok |-> {}, raw |-> 0]
NotDecoded == [path |-> "none"]
NoConn == [adapter |-> "none"]
NoRet == [ok |-> FALSE, kind |-> "none", msg |-> ""]

DecodeIdle == cell = NoCell /\ decoded = NotDecoded
NoOp == [name |-> "none", on |-> "none", arg |-> "", outs |-> <<>>]
ConnIdle == conn = NoConn /\ last_op = NoOp /\ last_ret = NoRet /\ driver_calls = <<>>
NoTable == [name |-> "", schema |-> None]
DetailsIdle ==
    gtd_table = NoTable /\ gtd_pc = "idle" /\ gtd_calls = <<>> /\ gtd_got = <<>> /\ gtd_ret = NoRet
NoQuery == [path |-> "none"]
QueryIdle == fetch_ret = NoRet /\ xq = NoQuery
NoIndexes == [impl |-> "none"]
IndexIdle == catalog = <<>> /\ idx_ret = NoIndexes
NoExport == [op |-> "none"]
ExportIdle == ex_in = NoExport /\ ex_out = NoExport
NoCall == [name |-> "none"]
ValidateIdle == vc_config = NoCall /\ vc_ret = NoRet
ConfigIdle == stc = NoCall /\ stc_call = NoCall
UiIdle == app = NoCall /\ ui_call = NoCall
ManagerIdle == files = NoCall /\ cm_saved = NoCall /\ cm_call = NoCall
TuiIdle == tui = NoCall /\ tui_event = NoCall
WidenIdle == wd_in = NoCall /\ wd_out = NoCall
LaterIdle == ValidateIdle /\ ConfigIdle /\ UiIdle /\ ManagerIdle /\ TuiIdle /\ WidenIdle

(***************************************************************************)
(* QueryResult (result.rs).  execution_time is a Duration the constructors *)
(* only store; it is kept as an opaque tag.                                *)
(***************************************************************************)
Truncate(rows, len) == IF len < Len(rows) THEN SubSeq(rows, 1, len) ELSE rows

\* a new() that forgets the columns of a result without rows
QueryResult_new_columns_lost(columns, rows, execution_time) ==
    [columns        |-> IF rows = <<>> THEN <<>> ELSE columns,
     rows           |-> rows,
     execution_time |-> execution_time,
     total_rows     |-> Len(rows),
     is_truncated   |-> FALSE,
     truncated_at   |-> None]

QueryResult_new(columns, rows, execution_time) ==
    LET total_rows == Len(rows)
    IN  [columns        |-> columns,
         rows           |-> rows,
         execution_time |-> execution_time,
         total_rows     |-> total_rows,
         is_truncated   |-> FALSE,
         truncated_at   |-> None]

\* a truncated() that reports the limit also when nothing was cut
QueryResult_truncated_always_some(columns, rows, execution_time, total_rows, limit) ==
    [columns        |-> columns,
     rows           |-> Truncate(rows, limit),
     execution_time |-> execution_time,
     total_rows     |-> total_rows,
     is_truncated   |-> Len(rows) > limit,
     truncated_at   |-> Some(limit)]

\* a truncated() that cuts one row too late (rows.len() >= limit, keeps limit + 1)
QueryResult_truncated_off_by_one(columns, rows, execution_time, total_rows, limit) ==
    LET is_truncated == Len(rows) > limit
    IN  [columns        |-> columns,
         rows           |-> IF is_truncated THEN Truncate(rows, limit + 1) ELSE rows,
         execution_time |-> execution_time,
         total_rows     |-> total_rows,
         is_truncated   |-> is_truncated,
         truncated_at   |-> IF is_truncated THEN Some(limit) ELSE None]

QueryResult_truncated(columns, rows, execution_time, total_rows, limit) ==
    LET is_truncated == Len(rows) > limit
        truncated_at == IF is_truncated THEN Some(limit) ELSE None
        kept         == IF is_truncated THEN Truncate(rows, limit) ELSE rows
    IN  [columns        |-> columns,
         rows           |-> kept,
         execution_time |-> execution_time,
         total_rows     |-> total_rows,
         is_truncated   |-> is_truncated,
         truncated_at   |-> truncated_at]

(***************************************************************************)
(* SpecResult: the arguments are drawn in the initial state, one of the    *)
(* two constructors is applied to them.                                    *)
(***************************************************************************)
ColumnInfo(name, data_type) ==
    [name |-> name, data_type |-> data_type, nullable |-> TRUE,
     max_length |-> None, precision |-> None, scale |-> None]

Row(values) == [values |-> values]

RowPool == {Row(<<ValueInteger(1)>>), Row(<<ValueString("a")>>)}
ColumnsPool == {<<>>, <<ColumnInfo("id", "INT")>>}

RowSeqs == UNION {[1..n -> RowPool] : n \in 0..MaxRows}

ResultArgs ==
    [columns : ColumnsPool, rows : RowSeqs, execution_time : {"t"},
     total_rows : 0..MaxTotalRows, limit : 0..MaxLimit]

NoArgs == [columns |-> <<>>, rows |-> <<>>, execution_time |-> "t",
           total_rows |-> 0, limit |-> 0]
NoResult == [op |-> "none"]

ResultIdle == qr_args = NoArgs /\ qr = NoResult

New ==
    /\ qr = NoResult
    /\ qr' = [op |-> "new",
              result |-> QueryResult_new(qr_args.columns, qr_args.rows,
                                         qr_args.execution_time)]
    /\ UNCHANGED <<qr_args, decodeVars, connVars, detailsVars, queryVars, indexVars, exportVars, laterVars>>

Truncated ==
    /\ qr = NoResult
    /\ qr' = [op |-> "truncated",
              result |-> QueryResult_truncated(qr_args.columns, qr_args.rows,
                                               qr_args.execution_time,
                                               qr_args.total_rows, qr_args.limit)]
    /\ UNCHANGED <<qr_args, decodeVars, connVars, detailsVars, queryVars, indexVars, exportVars, laterVars>>

InitResult ==
    /\ qr_args \in ResultArgs /\ qr = NoResult /\ DecodeIdle /\ ConnIdle /\ DetailsIdle
    /\ QueryIdle /\ IndexIdle /\ ExportIdle /\ LaterIdle

NextResult == New \/ Truncated

SpecResult == InitResult /\ [][NextResult]_vars

\* C3: truncated() keeps exactly the first `limit` rows, in order, and flags
\* the result (is_truncated, truncated_at == Some(limit)) when rows.len() > limit;
\* it returns the rows unchanged, unflagged, when rows.len() <= limit; in both
\* cases total_rows is the caller-supplied count.
C3_TruncatedContract ==
    qr.op = "truncated" =>
        LET r == qr.result
            n == Len(qr_args.rows)
        IN  /\ r.total_rows = qr_args.total_rows
            /\ n > qr_args.limit =>
                   /\ Len(r.rows) = qr_args.limit
                   /\ \A i \in 1..qr_args.limit : r.rows[i] = qr_args.rows[i]
                   /\ r.is_truncated = TRUE
                   /\ r.truncated_at = Some(qr_args.limit)
            /\ n <= qr_args.limit =>
                   /\ r.rows = qr_args.rows
                   /\ r.is_truncated = FALSE
                   /\ r.truncated_at = None

\* C3 witness: both branches' interesting case, a cut that drops rows while
\* the caller-supplied total differs from both lengths.
C3_Witness ==
    /\ qr.op = "truncated"
    /\ Len(qr_args.rows) > qr_args.limit
    /\ qr_args.limit >= 1
    /\ Len(qr.result.rows) < Len(qr_args.rows)
    /\ qr_args.total_rows # Len(qr_args.rows)
    /\ qr_args.total_rows # qr_args.limit

QueryResultInvariant(r) ==
    /\ r.is_truncated = is_some(r.truncated_at)
    /\ Len(r.rows) = unwrap_or(r.truncated_at, r.total_rows)

\* C4 as stated: every QueryResult built by new or by truncated, for any
\* arguments, has is_truncated == truncated_at.is_some() and
\* rows.len() == truncated_at.unwrap_or(total_rows).
C4_InvariantAnyArguments ==
    qr.op \in {"new", "truncated"} => QueryResultInvariant(qr.result)

\* C4 amended: is_truncated == truncated_at.is_some() for any arguments; and
\* rows.len() == truncated_at.unwrap_or(total_rows) for every result of new,
\* and for a result of truncated exactly when the rows were cut
\* (rows.len() > limit) or the caller-supplied total_rows equals rows.len().
C4_InvariantAmended ==
    /\ qr.op = "new" => QueryResultInvariant(qr.result)
    /\ qr.op = "truncated" =>
        /\ qr.result.is_truncated = is_some(qr.result.truncated_at)
        /\ (Len(qr.result.rows) = unwrap_or(qr.result.truncated_at, qr.result.total_rows))
               <=> \/ Len(qr_args.rows) > qr_args.limit
                   \/ qr_args.total_rows = Len(qr_args.rows)

\* C4 witness: an uncut truncated() result whose total_rows is the true count.
C4_Witness ==
    /\ qr.op = "truncated"
    /\ Len(qr_args.rows) >= 1
    /\ Len(qr_args.rows) <= qr_args.limit
    /\ qr_args.total_rows = Len(qr_args.rows)
    /\ QueryResultInvariant(qr.result)

(***************************************************************************)
(* Value decoding.                                                         *)
(*                                                                         *)
(* A raw cell, as the driver presents it to the adapters:                  *)
(*   null       what try_get_raw(i).is_null() answers                      *)
(*   type_name  column.type_info().name()                                  *)
(*   ok         the Rust types T for which row.try_get::<T, _>(i) returns  *)
(*              Ok.  For a null cell this is what the driver's typed       *)
(*              extraction does with absent data.                          *)
(*   raw        the stored datum, with its numeric and its textual reading *)
(* row.try_get::<Option<T>, _> answers Ok(None) for a null cell, whatever  *)
(* T is, and Ok(Some(v)) / Err as try_get::<T, _> does otherwise.          *)
(***************************************************************************)
RustTypes ==
    {"i8", "i16", "i32", "i64", "u8", "u16", "u32", "u64", "f32", "f64",
     "bool", "String", "NaiveDateTime", "DateTime<Utc>"}

TypeNames ==
    {"TINYINT", "SMALLINT", "INT", "BIGINT", "FLOAT", "DOUBLE", "BOOLEAN",
     "DECIMAL", "VARCHAR", "JSON", "DATETIME", "DATE", "TIME",
     "INT4", "NUMERIC", "TEXT", "TIMESTAMPTZ", "BLOB", "NULL"}

RawPool == {[int |-> 42, text |-> "42"]}

OkSets == {S \in SUBSET RustTypes : Cardinality(S) <= MaxOk} \cup {RustTypes}

Cells == [null : BOOLEAN, type_name : TypeNames, ok : OkSets, raw : RawPool]

is_null(c) == c.null

try_get(c, T) == T \in c.ok

try_get_option(c, T) == c.null \/ T \in c.ok

Probe(T, option) == [t |-> T, option |-> option]

(***************************************************************************)
(* Integers of the widths the probes extract.  A number is written as an   *)
(* offset from a power of two, [base, off] meaning base + off with a small *)
(* off, so that the 64-bit limits are exact; every number below has one    *)
(* such form, and equal forms are equal numbers.                           *)
(***************************************************************************)
Num(base, off) == [base |-> base, off |-> off]
Plain(n) == Num("0", n)

IntegerTypes == {"i8", "i16", "i32", "i64", "u8", "u16", "u32", "u64"}

MinOf(T) ==
    CASE T = "i8" -> Plain(-128)
      [] T = "i16" -> Plain(-32768)
      [] T = "i32" -> Num("-2^31", 0)
      [] T = "i64" -> Num("-2^63", 0)
      [] OTHER -> Plain(0)

MaxOf(T) ==
    CASE T = "i8" -> Plain(127)
      [] T = "i16" -> Plain(32767)
      [] T = "i32" -> Num("2^31", -1)
      [] T = "i64" -> Num("2^63", -1)
      [] T = "u8" -> Plain(255)
      [] T = "u16" -> Plain(65535)
      [] T = "u32" -> Num("2^32", -1)
      [] T = "u64" -> Num("2^64", -1)

\* `v as i64` for v of type T: value-preserving from every narrower type and
\* from i64; from u64 the same 64 bits read as two's complement, which is
\* v - 2^64 for v >= 2^63
as_i64(T, v) ==
    IF T = "u64" /\ v.base = "2^63" /\ v.off >= 0 THEN Num("-2^63", v.off)
    ELSE IF T = "u64" /\ v.base = "2^64" THEN Num("0", v.off)
    ELSE v


\* `Value::Integer(val as i64)`, `Value::Float(val as f64)`, ... for a probe of type T
Wrap(T, raw) ==
    CASE T \in IntegerTypes -> ValueInteger(as_i64(T, Plain(raw.int)).off)
      [] T \in {"f32", "f64"} -> ValueFloat(raw.int)
      [] T = "bool" -> ValueBoolean(raw.int # 0)
      [] T = "String" -> ValueString(<<raw.text>>)
      [] T = "NaiveDateTime" -> ValueString(<<raw.text, "%Y-%m-%d %H:%M:%S">>)
      [] T = "DateTime<Utc>" -> ValueString(<<raw.text, "%Y-%m-%d %H:%M:%S UTC">>)

\* index of the first probe of an `if let Ok(..) = .. else if let Ok(..) = ..`
\* chain that succeeds, 0 when none does
FirstHit(c, order, option) ==
    LET hit(i) == IF option THEN try_get_option(c, order[i]) ELSE try_get(c, order[i])
    IN  IF \E i \in 1..Len(order) : hit(i)
        THEN CHOOSE i \in 1..Len(order) : hit(i) /\ \A j \in 1..(i - 1) : ~hit(j)
        ELSE 0

\* the chain as a whole: the value of the first probe that succeeds
\* (`None => Value::Null` for an Option probe), `otherwise` when all fail
Chain(c, order, option, otherwise) ==
    LET hit == FirstHit(c, order, option)
        n   == IF hit = 0 THEN Len(order) ELSE hit
    IN  [value  |-> IF hit = 0 THEN otherwise
                    ELSE IF option /\ c.null THEN ValueNull
                    ELSE Wrap(order[hit], c.raw),
         probes |-> [i \in 1..n |-> Probe(order[i], option)]]

\* one arm of the declared-type match: a single try_get::<T, _>
Arm(c, T, value, what) ==
    [value  |-> IF try_get(c, T) THEN value
                ELSE ValueUnknown(<<"Failed to parse ", c.type_name, what>>),
     probes |-> <<Probe(T, FALSE)>>]

NullShortCircuit == [value |-> ValueNull, probes |-> <<>>]

MySqlFallbackOrder ==
    <<"i32", "i64", "i16", "i8", "u32", "u16", "u8", "f64", "f32", "bool", "String">>

MySqlQueryExecutor_decode(c) ==
    LET tn == c.type_name
        text == <<c.raw.text>>
    IN  IF is_null(c) THEN NullShortCircuit
        ELSE CASE tn = "TINYINT" -> Arm(c, "i8", ValueInteger(c.raw.int), " as i8")
               [] tn = "SMALLINT" -> Arm(c, "i16", ValueInteger(c.raw.int), " as i16")
               [] tn \in {"MEDIUMINT", "INT", "INTEGER"} ->
                      Arm(c, "i32", ValueInteger(c.raw.int), " as i32")
               [] tn = "BIGINT" -> Arm(c, "i64", ValueInteger(c.raw.int), " as i64")
               [] tn = "FLOAT" -> Arm(c, "f32", ValueFloat(c.raw.int), " as f32")
               [] tn = "DOUBLE" -> Arm(c, "f64", ValueFloat(c.raw.int), " as f64")
               [] tn \in {"BOOLEAN", "BOOL"} ->
                      Arm(c, "bool", ValueBoolean(c.raw.int # 0), " as bool")
               [] tn \in {"DECIMAL", "NUMERIC"} ->
                      Chain(c, <<"f64", "String">>, FALSE,
                            ValueUnknown(<<"Failed to parse ", tn, " as f64 or String">>))
               [] tn \in {"VARCHAR", "CHAR", "TEXT", "TINYTEXT", "MEDIUMTEXT",
                          "LONGTEXT", "JSON"} ->
                      Arm(c, "String", ValueString(text), " as String")
               [] tn \in {"DATETIME", "TIMESTAMP"} ->
                      Arm(c, "String", ValueDateTime(text), " as String")
               [] tn = "DATE" -> Arm(c, "String", ValueDate(text), " as String")
               [] tn = "TIME" -> Arm(c, "String", ValueTime(text), " as String")
               [] OTHER ->
                      Chain(c, MySqlFallbackOrder, FALSE,
                            ValueUnknown(<<"Unknown MySQL type: ", tn>>))

MySqlConnectionOrder ==
    <<"i32", "i64", "i16", "i8", "u32", "u64", "f64", "f32", "bool",
      "NaiveDateTime", "DateTime<Utc>", "String">>

MySqlConnection_decode(c) ==
    Chain(c, MySqlConnectionOrder, TRUE, ValueString(<<"Unknown type: ", c.type_name>>))

PostgresFallbackOrder == <<"i32", "i64", "i16", "f64", "f32", "bool", "String">>

PostgresQueryExecutor_decode(c) ==
    LET tn == c.type_name
        text == <<c.raw.text>>
    IN  IF is_null(c) THEN NullShortCircuit
        ELSE CASE tn \in {"INT2", "SMALLINT", "SMALLSERIAL"} ->
                      Arm(c, "i16", ValueInteger(c.raw.int), " as i16")
               [] tn \in {"INT4", "INTEGER", "INT", "SERIAL"} ->
                      Arm(c, "i32", ValueInteger(c.raw.int), " as i32")
               [] tn \in {"INT8", "BIGINT", "BIGSERIAL"} ->
                      Arm(c, "i64", ValueInteger(c.raw.int), " as i64")
               [] tn \in {"FLOAT4", "REAL"} -> Arm(c, "f32", ValueFloat(c.raw.int), " as f32")
               [] tn \in {"FLOAT8", "DOUBLE PRECISION"} ->
                      Arm(c, "f64", ValueFloat(c.raw.int), " as f64")
               [] tn \in {"BOOL", "BOOLEAN"} ->
                      Arm(c, "bool", ValueBoolean(c.raw.int # 0), " as bool")
               [] tn \in {"NUMERIC", "DECIMAL"} ->
                      Chain(c, <<"f64", "String">>, FALSE,
                            ValueUnknown(<<"Failed to parse ", tn, " as f64 or String">>))
               [] tn \in {"TEXT", "VARCHAR", "CHAR", "BPCHAR", "NAME",
                          "CHARACTER VARYING", "CHARACTER"} ->
                      Arm(c, "String", ValueString(text), " as String")
               [] tn \in {"TIMESTAMP", "TIMESTAMPTZ", "TIMESTAMP WITH TIME ZONE",
                          "TIMESTAMP WITHOUT TIME ZONE"} ->
                      Arm(c, "String", ValueDateTime(text), " as String")
               [] tn = "DATE" -> Arm(c, "String", ValueDate(text), " as String")
               [] tn \in {"TIME", "TIMETZ", "TIME WITH TIME ZONE",
                          "TIME WITHOUT TIME ZONE"} ->
                      Arm(c, "String", ValueTime(text), " as String")
               [] OTHER ->
                      Chain(c, PostgresFallbackOrder, FALSE,
                            ValueUnknown(<<"Unknown type: ", tn>>))

PostgresConnectionOrder ==
    <<"String", "i32", "i64", "i16", "f64", "f32", "bool", "NaiveDateTime", "DateTime<Utc>">>

PostgresConnection_decode(c) ==
    Chain(c, PostgresConnectionOrder, TRUE, ValueString(<<"Unknown type: ", c.type_name>>))

SqliteQueryExecutorOrder == <<"String", "i64", "f64", "bool">>

SqliteQueryExecutor_decode(c) ==
    Chain(c, SqliteQueryExecutorOrder, FALSE, ValueNull)

SqliteConnectionOrder == <<"i64", "i32", "f64", "bool", "String">>

SqliteConnection_decode(c) ==
    Chain(c, SqliteConnectionOrder, TRUE, ValueString(<<"Unknown type: ", c.type_name>>))

DecodePaths ==
    {"MySqlQueryExecutor", "MySqlConnection", "PostgresQueryExecutor",
     "PostgresConnection", "SqliteQueryExecutor", "SqliteConnection"}

Decoded(path, out) == [path |-> path, value |-> out.value, probes |-> out.probes]

DecodeMySqlQueryExecutor ==
    /\ decoded = NotDecoded
    /\ decoded' = Decoded("MySqlQueryExecutor", MySqlQueryExecutor_decode(cell))
    /\ UNCHANGED <<cell, resultVars, connVars, detailsVars, queryVars, indexVars, exportVars, laterVars>>

DecodeMySqlConnection ==
    /\ decoded = NotDecoded
    /\ decoded' = Decoded("MySqlConnection", MySqlConnection_decode(cell))
    /\ UNCHANGED <<cell, resultVars, connVars, detailsVars, queryVars, indexVars, exportVars, laterVars>>

DecodePostgresQueryExecutor ==
    /\ decoded = NotDecoded
    /\ decoded' = Decoded("PostgresQueryExecutor", PostgresQueryExecutor_decode(cell))
    /\ UNCHANGED <<cell, resultVars, connVars, detailsVars, queryVars, indexVars, exportVars, laterVars>>

DecodePostgresConnection ==
    /\ decoded = NotDecoded
    /\ decoded' = Decoded("PostgresConnection", PostgresConnection_decode(cell))
    /\ UNCHANGED <<cell, resultVars, connVars, detailsVars, queryVars, indexVars, exportVars, laterVars>>

DecodeSqliteQueryExecutor ==
    /\ decoded = NotDecoded
    /\ decoded' = Decoded("SqliteQueryExecutor", SqliteQueryExecutor_decode(cell))
    /\ UNCHANGED <<cell, resultVars, connVars, detailsVars, queryVars, indexVars, exportVars, laterVars>>

DecodeSqliteConnection ==
    /\ decoded = NotDecoded
    /\ decoded' = Decoded("SqliteConnection", SqliteConnection_decode(cell))
    /\ UNCHANGED <<cell, resultVars, connVars, detailsVars, queryVars, indexVars, exportVars, laterVars>>

InitDecode ==
    /\ cell \in Cells /\ decoded = NotDecoded /\ ResultIdle /\ ConnIdle /\ DetailsIdle
    /\ QueryIdle /\ IndexIdle /\ ExportIdle /\ LaterIdle

NextDecode ==
    \/ DecodeMySqlQueryExecutor
    \/ DecodeMySqlConnection
    \/ DecodePostgresQueryExecutor
    \/ DecodePostgresConnection
    \/ DecodeSqliteQueryExecutor
    \/ DecodeSqliteConnection

SpecDecode == InitDecode /\ [][NextDecode]_vars

HasDecoded == decoded.path \in DecodePaths

\* every probe the decoder attempted on the cell failed
EveryProbeFailed ==
    \A i \in 1..Len(decoded.probes) : ~try_get(cell, decoded.probes[i].t)

Contains(text, s) == \E i \in 1..Len(text) : text[i] = s

\* C5: on every decoding path of every adapter a null cell decodes to
\* Value::Null, whatever its declared type and whatever the typed probes
\* return for it.
C5_NullCellDecodesToNull ==
    (HasDecoded /\ is_null(cell)) => decoded.value = ValueNull

\* C9: Value::Null is produced only for a null cell: no path decodes a
\* non-null cell to Value::Null, not even when every typed probe fails.
C9_NullOnlyForNullCell ==
    (HasDecoded /\ decoded.value = ValueNull) => is_null(cell)

\* C10: a non-null cell decodes to Value::Unknown if and only if every probe
\* the cascade attempts for it fails, and the Unknown text then contains the
\* column's declared type name.
C10_UnknownIffEveryProbeFailed ==
    (HasDecoded /\ ~is_null(cell)) =>
        /\ (decoded.value.tag = "Unknown") <=> EveryProbeFailed
        /\ decoded.value.tag = "Unknown" => Contains(decoded.value.v, cell.type_name)

\* the families of declared types, by backend: the family's Value variant,
\* the Rust types that read a cell of the family, and the one that reads a
\* cell of this declared type (the temporal families are read as text)
MySqlAdapterPaths == {"MySqlQueryExecutor", "MySqlConnection"}
PostgresAdapterPaths == {"PostgresQueryExecutor", "PostgresConnection"}

IntegerTypeNames == {"TINYINT", "SMALLINT", "INT", "BIGINT", "INT4"}
FloatTypeNames == {"FLOAT", "DOUBLE"}
TextTypeNames == {"VARCHAR", "TEXT", "JSON"}

FamilyVariant(tn) ==
    CASE tn \in IntegerTypeNames -> "Integer"
      [] tn \in FloatTypeNames -> "Float"
      [] tn = "BOOLEAN" -> "Boolean"
      [] tn \in TextTypeNames -> "String"
      [] tn = "DATE" -> "Date"
      [] tn = "TIME" -> "Time"
      [] tn \in {"DATETIME", "TIMESTAMPTZ"} -> "DateTime"
      [] OTHER -> "none"

FamilyTypes(tn) ==
    CASE tn \in IntegerTypeNames -> {"i8", "i16", "i32", "i64"}
      [] tn \in FloatTypeNames -> {"f32", "f64"}
      [] tn = "BOOLEAN" -> {"bool"}
      [] OTHER -> {"String"}

ExtractionType(tn) ==
    CASE tn = "TINYINT" -> "i8"
      [] tn = "SMALLINT" -> "i16"
      [] tn \in {"INT", "INT4"} -> "i32"
      [] tn = "BIGINT" -> "i64"
      [] tn = "FLOAT" -> "f32"
      [] tn = "DOUBLE" -> "f64"
      [] tn = "BOOLEAN" -> "bool"
      [] OTHER -> "String"

\* the declared type names of a backend that belong to a listed family
ListedTypeNames(path) ==
    IF path \in MySqlAdapterPaths
    THEN {"TINYINT", "SMALLINT", "INT", "BIGINT", "FLOAT", "DOUBLE", "BOOLEAN",
          "VARCHAR", "TEXT", "JSON", "DATE", "TIME", "DATETIME"}
    ELSE IF path \in PostgresAdapterPaths
    THEN {"SMALLINT", "INT", "INT4", "BIGINT", "FLOAT", "DOUBLE", "BOOLEAN",
          "VARCHAR", "TEXT", "JSON", "DATE", "TIME", "TIMESTAMPTZ"}
    ELSE {}

\* the cell is of a listed family and its extraction succeeds (and no
\* extraction of another family does)
FamilyExtractionSucceeds ==
    /\ HasDecoded
    /\ ~is_null(cell)
    /\ cell.type_name \in ListedTypeNames(decoded.path)
    /\ ExtractionType(cell.type_name) \in cell.ok
    /\ cell.ok \subseteq FamilyTypes(cell.type_name)

\* C13: in the MySQL and PostgreSQL adapters a non-null cell whose declared
\* type is in a listed family decodes to that family's variant when its
\* extraction succeeds: integers to Integer, floats to Float, booleans to
\* Boolean, text (JSON too) to String, date-only to Date, time-only to Time,
\* date-time to DateTime.
C13_FamilyDecodesToVariant ==
    FamilyExtractionSucceeds => decoded.value.tag = FamilyVariant(cell.type_name)

DecimalTypeNames == {"DECIMAL", "NUMERIC"}

ProbeIndex(T) ==
    IF \E i \in 1..Len(decoded.probes) : decoded.probes[i].t = T
    THEN CHOOSE i \in 1..Len(decoded.probes) :
             decoded.probes[i].t = T /\ \A j \in 1..(i - 1) : decoded.probes[j].t # T
    ELSE 0

\* C14: for a non-null cell of a decimal/numeric declared type the MySQL and
\* PostgreSQL adapters attempt the f64 extraction, and no text extraction
\* before it; they return Float when the f64 extraction succeeds, and the
\* text as String when it fails and the text extraction succeeds.
C14_DecimalFloatBeforeText ==
    (/\ HasDecoded
     /\ decoded.path \in MySqlAdapterPaths \cup PostgresAdapterPaths
     /\ ~is_null(cell)
     /\ cell.type_name \in DecimalTypeNames
     /\ cell.ok \subseteq {"f64", "String"}) =>
        /\ ProbeIndex("f64") >= 1
        /\ ProbeIndex("String") >= 1 => ProbeIndex("f64") < ProbeIndex("String")
        /\ "f64" \in cell.ok => decoded.value = ValueFloat(cell.raw.int)
        /\ ("f64" \notin cell.ok /\ "String" \in cell.ok) =>
               decoded.value = ValueString(<<cell.raw.text>>)

(***************************************************************************)
(* The default SchemaInspector::get_table_details (schema.rs:109-138).     *)
(*                                                                         *)
(* The four sub-calls are trait methods of the implementor; each is an     *)
(* .await that yields Ok(payload) or Err(error).  GtdStep is the code      *)
(* between two awaits: it takes the sub-call's answer, and `?` either      *)
(* returns the error as it is or lets the method go on.                    *)
(***************************************************************************)
SubCalls == <<"describe_table", "list_indexes", "list_foreign_keys", "get_table_row_count">>

SubCallIndex(name) == CHOOSE i \in 1..Len(SubCalls) : SubCalls[i] = name

Table(table_name, schema) == [name |-> table_name, schema |-> schema]

TableStatistics(row_count) ==
    [row_count |-> row_count, size_bytes |-> None, last_updated |-> None,
     auto_increment_value |-> None]

TableDetails(table, columns, indexes, foreign_keys, statistics) ==
    [table |-> table, columns |-> columns, indexes |-> indexes,
     foreign_keys |-> foreign_keys, statistics |-> statistics]

GtdBegin(table_name, schema) ==
    [table |-> Table(table_name, schema), pc |-> SubCalls[1],
     calls |-> <<>>, got |-> <<>>, ret |-> NoRet]

\* a composition that goes on after a failed sub-call and reports the last error
GtdStep_no_short_circuit(st, out) ==
    LET i     == SubCallIndex(st.pc)
        calls == Append(st.calls, st.pc)
        got   == Append(st.got, out)
        bad   == {j \in 1..Len(got) : ~got[j].ok}
    IN  IF i < Len(SubCalls)
        THEN [st EXCEPT !.pc = SubCalls[i + 1], !.calls = calls, !.got = got]
        ELSE [st EXCEPT !.pc = "done", !.calls = calls, !.got = got,
                        !.ret = IF bad = {} THEN Ok("TableDetails")
                                ELSE got[CHOOSE j \in bad : \A k \in bad : k <= j]]

GtdStep(st, out) ==
    LET i     == SubCallIndex(st.pc)
        calls == Append(st.calls, st.pc)
        got   == Append(st.got, out)
    IN  IF ~out.ok
        THEN [st EXCEPT !.pc = "done", !.calls = calls, !.got = got, !.ret = out]
        ELSE IF i < Len(SubCalls)
        THEN [st EXCEPT !.pc = SubCalls[i + 1], !.calls = calls, !.got = got]
        ELSE [st EXCEPT !.pc = "done", !.calls = calls, !.got = got,
                        !.ret = Ok(TableDetails(st.table, got[1].val, got[2].val,
                                                got[3].val, TableStatistics(got[4].val)))]

\* the whole method against a backend that answers outs[i] to the i-th sub-call
RECURSIVE GtdRun(_, _)
GtdRun(st, outs) ==
    IF st.pc = "done" THEN st
    ELSE GtdRun(GtdStep(st, outs[SubCallIndex(st.pc)]), outs)

default_get_table_details(table_name, schema, outs) ==
    GtdRun(GtdBegin(table_name, schema), outs)

TableNames == {"users", "posts"}
Schemas == {None, Some("public")}
SubCallErrors == {Err("Query", "e1"), Err("SchemaInspection", "e2"), Err("Connection", "e3")}
SubCallPayloads == {<<"a">>, <<"a", "b">>}
SubCallOutcomes == {Ok(x) : x \in SubCallPayloads} \cup SubCallErrors

GtdState ==
    [table |-> gtd_table, pc |-> gtd_pc, calls |-> gtd_calls, got |-> gtd_got, ret |-> gtd_ret]

GtdSet(st) ==
    /\ gtd_table' = st.table
    /\ gtd_pc' = st.pc
    /\ gtd_calls' = st.calls
    /\ gtd_got' = st.got
    /\ gtd_ret' = st.ret

GetTableDetailsCall(table_name, schema) ==
    /\ gtd_pc = "idle"
    /\ GtdSet(GtdBegin(table_name, schema))
    /\ UNCHANGED <<resultVars, decodeVars, connVars, queryVars, indexVars, exportVars, laterVars>>

DescribeTableReturns ==
    \E out \in SubCallOutcomes :
        /\ gtd_pc = "describe_table"
        /\ GtdSet(GtdStep(GtdState, out))
        /\ UNCHANGED <<resultVars, decodeVars, connVars, queryVars, indexVars, exportVars, laterVars>>

ListIndexesReturns ==
    \E out \in SubCallOutcomes :
        /\ gtd_pc = "list_indexes"
        /\ GtdSet(GtdStep(GtdState, out))
        /\ UNCHANGED <<resultVars, decodeVars, connVars, queryVars, indexVars, exportVars, laterVars>>

ListForeignKeysReturns ==
    \E out \in SubCallOutcomes :
        /\ gtd_pc = "list_foreign_keys"
        /\ GtdSet(GtdStep(GtdState, out))
        /\ UNCHANGED <<resultVars, decodeVars, connVars, queryVars, indexVars, exportVars, laterVars>>

GetTableRowCountReturns ==
    \E out \in SubCallOutcomes :
        /\ gtd_pc = "get_table_row_count"
        /\ GtdSet(GtdStep(GtdState, out))
        /\ UNCHANGED <<resultVars, decodeVars, connVars, queryVars, indexVars, exportVars, laterVars>>

InitDetails ==
    /\ DetailsIdle /\ ResultIdle /\ DecodeIdle /\ ConnIdle
    /\ QueryIdle /\ IndexIdle /\ ExportIdle /\ LaterIdle

NextDetails ==
    \/ \E t \in TableNames, sc \in Schemas : GetTableDetailsCall(t, sc)
    \/ DescribeTableReturns
    \/ ListIndexesReturns
    \/ ListForeignKeysReturns
    \/ GetTableRowCountReturns

SpecDetails == InitDetails /\ [][NextDetails]_vars

IsPrefix(p, q) == Len(p) <= Len(q) /\ \A i \in 1..Len(p) : p[i] = q[i]

FailedCalls == {i \in 1..Len(gtd_got) : ~gtd_got[i].ok}

\* C1: the default get_table_details invokes describe_table, list_indexes,
\* list_foreign_keys, get_table_row_count in exactly that order; after the
\* first sub-call that fails no further sub-call is invoked, the method
\* returns that sub-call's error unchanged and no TableDetails; it returns a
\* TableDetails only when all four sub-calls were invoked and succeeded.
C1_OrderAndShortCircuit ==
    /\ IsPrefix(gtd_calls, SubCalls)
    /\ Len(gtd_got) = Len(gtd_calls)
    /\ \A i \in FailedCalls :
           /\ i = Len(gtd_calls)
           /\ gtd_pc = "done"
           /\ gtd_ret = gtd_got[i]
    /\ (gtd_pc = "done" /\ FailedCalls = {}) =>
           /\ gtd_calls = SubCalls
           /\ gtd_ret.ok
    /\ gtd_ret.ok => (gtd_pc = "done" /\ FailedCalls = {} /\ gtd_calls = SubCalls)
    /\ gtd_pc # "done" => gtd_ret = NoRet

\* C1 witness: describe_table failed; it is the only sub-call invoked and
\* its error is what the method returned.
C1_Witness ==
    /\ gtd_pc = "done"
    /\ gtd_calls = <<"describe_table">>
    /\ ~gtd_got[1].ok
    /\ gtd_ret = gtd_got[1]

(***************************************************************************)
(* The connection objects (MySqlConnection, PostgresConnection,            *)
(* SqliteConnection) and the QueryExecutor hooks.                          *)
(*                                                                         *)
(* The driver's pool: Pool::connect opens it, Pool::close closes it for    *)
(* good, is_closed() tells, and every fetch on a closed pool fails with    *)
(* the driver's PoolClosed error.  A driver answer is Ok(payload) or an    *)
(* error of the driver ("sqlx"), which the adapters turn into a            *)
(* SqlTermError with map_err.                                              *)
(* close takes &mut self, every other method &self: no other method of a   *)
(* connection runs while close does, so each method is one step.           *)
(***************************************************************************)
Adapters == {"MySQL", "PostgreSQL", "SQLite"}
DatabaseType == {"MySQL", "PostgreSQL", "SQLite"}

DriverOutcomes == {Ok(<<"a">>), Err("sqlx", "io")}

map_err(out, kind) == IF out.ok THEN out ELSE Err(kind, out.msg)

PoolFetch(c, out) == IF c.pool_closed THEN Err("sqlx", "PoolClosed") ELSE out

Connection(adapter) ==
    [adapter |-> adapter, connected |-> TRUE, pool_closed |-> FALSE, closes |-> 0]

\* a connect that opens the pool before it looks at the backend kind
connect_pool_first(adapter, database_type, transport_ok) ==
    IF ~transport_ok
    THEN [ret |-> Err("Connection", "transport"), conn |-> NoConn,
          driver |-> <<"Pool::connect">>]
    ELSE IF database_type # adapter
    THEN [ret |-> Err("Configuration", "Invalid database type"), conn |-> NoConn,
          driver |-> <<"Pool::connect">>]
    ELSE [ret |-> Ok("Box<dyn DatabaseConnection>"), conn |-> Connection(adapter),
          driver |-> <<"Pool::connect">>]

connect(adapter, database_type, transport_ok) ==
    IF database_type # adapter
    THEN [ret |-> Err("Configuration", "Invalid database type"), conn |-> NoConn,
          driver |-> <<>>]
    ELSE IF ~transport_ok
    THEN [ret |-> Err("Connection", "transport"), conn |-> NoConn,
          driver |-> <<"Pool::connect">>]
    ELSE [ret |-> Ok("Box<dyn DatabaseConnection>"), conn |-> Connection(adapter),
          driver |-> <<"Pool::connect">>]

ping(c, out) ==
    [ret |-> IF PoolFetch(c, out).ok THEN Ok("()")
             ELSE map_err(PoolFetch(c, out), "Connection"),
     conn |-> c, driver |-> <<"fetch_one">>]

get_connection_info(c, out) ==
    [ret |-> IF PoolFetch(c, out).ok THEN Ok("ConnectionInfo")
             ELSE map_err(PoolFetch(c, out), "Connection"),
     conn |-> c, driver |-> <<"fetch_one">>]

\* a close that rejects a connection that is closed already
close_rejects_closed(c) ==
    IF c.pool_closed
    THEN [ret |-> Err("Connection", "already closed"), conn |-> c, driver |-> <<>>]
    ELSE [ret |-> Ok("()"),
          conn |-> [c EXCEPT !.pool_closed = TRUE, !.connected = FALSE,
                             !.closes = c.closes + 1],
          driver |-> <<"Pool::close">>]

close(c) ==
    [ret |-> Ok("()"),
     conn |-> [c EXCEPT !.pool_closed = TRUE, !.connected = FALSE,
                        !.closes = c.closes + 1],
     driver |-> <<"Pool::close">>]

is_connected(c) == c.connected /\ ~c.pool_closed

(***************************************************************************)
(* execute_query of the connection objects.  A result set of the driver is *)
(* its column names and its rows of raw cells; a column's data_type is the *)
(* type name of the first row's cell, and each value is looked up by the   *)
(* column's name (row.try_get(col.name.as_str())).                         *)
(***************************************************************************)
CellInt  == [null |-> FALSE, type_name |-> "INT", ok |-> {"i32", "i64"},
             raw |-> [int |-> 42, text |-> "42"]]
CellNull == [null |-> TRUE, type_name |-> "INT", ok |-> {},
             raw |-> [int |-> 42, text |-> "42"]]
CellText == [null |-> FALSE, type_name |-> "TEXT", ok |-> {"String"},
             raw |-> [int |-> 42, text |-> "42"]]
CellReal == [null |-> FALSE, type_name |-> "DECIMAL", ok |-> {"f64"},
             raw |-> [int |-> 42, text |-> "42"]]
CellBlob == [null |-> FALSE, type_name |-> "BLOB", ok |-> {},
             raw |-> [int |-> 42, text |-> "42"]]

ResultSets ==
    {[columns |-> <<"id">>, rows |-> <<>>],
     [columns |-> <<"id">>, rows |-> << <<CellInt>> >>],
     [columns |-> <<"id", "name">>, rows |-> << <<CellInt, CellText>>, <<CellNull, CellText>> >>]}

FetchAllOutcomes == {Ok(rs) : rs \in ResultSets} \cup {Err("sqlx", "syntax")}

\* the driver resolves a name through a map from column name to ordinal that
\* it fills in column order: of several columns of one name the last is found
ColumnIndex(names, name) ==
    CHOOSE i \in 1..Len(names) :
        names[i] = name /\ \A j \in (i + 1)..Len(names) : names[j] # name

\* the declared type is the statement's column metadata, one per column: a
\* row's cell is its datum under the column's type name
CellOfColumn(c, data_type) == [c EXCEPT !.type_name = data_type]

ConnectionDecode(adapter, c) ==
    CASE adapter = "MySQL" -> MySqlConnection_decode(c).value
      [] adapter = "PostgreSQL" -> PostgresConnection_decode(c).value
      [] adapter = "SQLite" -> SqliteConnection_decode(c).value

execute_query(c, out) ==
    LET fetched == map_err(PoolFetch(c, out), "Query")
        names   == fetched.val.columns
        rows    == fetched.val.rows
        columns == [i \in 1..Len(names) |-> ColumnInfo(names[i], rows[1][i].type_name)]
        result_rows ==
            [r \in 1..Len(rows) |->
                Row([i \in 1..Len(columns) |->
                        ConnectionDecode(c.adapter,
                            CellOfColumn(rows[r][ColumnIndex(names, columns[i].name)],
                                         columns[i].data_type))])]
    IN  [ret |-> IF ~fetched.ok THEN fetched
                 ELSE IF rows = <<>>
                 THEN Ok([columns |-> <<>>, rows |-> <<>>, total_rows |-> 0,
                          execution_time |-> "t", is_truncated |-> FALSE,
                          truncated_at |-> None])
                 ELSE Ok([columns |-> columns, rows |-> result_rows,
                          total_rows |-> Len(result_rows), execution_time |-> "t",
                          is_truncated |-> FALSE, truncated_at |-> None]),
         conn |-> c, driver |-> <<"fetch_all">>]

list_tables(c, out) ==
    [ret |-> map_err(PoolFetch(c, out), "Query"), conn |-> c, driver |-> <<"fetch_all">>]

\* MySqlConnection: the default composition over its own SchemaInspector
\* methods, each one fetch whose error becomes SqlTermError::Query.
\* PostgresConnection, SqliteConnection: their own two fetches (columns, count).
get_table_details(c, table_name, outs) ==
    LET answer(i) == map_err(PoolFetch(c, outs[i]), "Query")
        run       == default_get_table_details(table_name, None,
                                               [i \in 1..Len(SubCalls) |-> answer(i)])
        schema    == IF c.adapter = "PostgreSQL" THEN Some("public") ELSE None
    IN  IF c.adapter = "MySQL"
        THEN [ret |-> run.ret, conn |-> c,
              driver |-> [i \in 1..Len(run.calls) |->
                             IF i = Len(SubCalls) THEN "fetch_one" ELSE "fetch_all"]]
        ELSE IF ~answer(1).ok
        THEN [ret |-> answer(1), conn |-> c, driver |-> <<"fetch_all">>]
        ELSE IF ~answer(4).ok
        THEN [ret |-> answer(4), conn |-> c, driver |-> <<"fetch_all", "fetch_one">>]
        ELSE [ret |-> Ok(TableDetails(Table(table_name, schema), answer(1).val, <<>>, <<>>,
                                      TableStatistics(answer(4).val))),
              conn |-> c, driver |-> <<"fetch_all", "fetch_one">>]

QueryExecutorImpls ==
    {"MySqlConnection", "MySqlQueryExecutor", "PostgresQueryExecutor", "SqliteQueryExecutor"}

prepare_statement(impl) ==
    IF impl = "MySqlConnection"
    THEN Err("NotImplemented", "Prepared statements not yet implemented for MySQL")
    ELSE Err("QueryExecution", "Prepared statements not yet implemented")

begin_transaction(impl) ==
    IF impl = "MySqlConnection"
    THEN Err("NotImplemented", "Transactions not yet implemented for MySQL")
    ELSE Err("QueryExecution", "Transactions not yet implemented")

Connect ==
    \E adapter \in Adapters, database_type \in DatabaseType, transport_ok \in BOOLEAN :
        /\ conn = NoConn
        /\ last_op' = [name |-> "connect", on |-> adapter, arg |-> database_type, outs |-> <<>>]
        /\ last_ret' = connect(adapter, database_type, transport_ok).ret
        /\ conn' = connect(adapter, database_type, transport_ok).conn
        /\ driver_calls' = connect(adapter, database_type, transport_ok).driver
        /\ UNCHANGED <<resultVars, decodeVars, detailsVars, queryVars, indexVars, exportVars, laterVars>>

Ping ==
    \E out \in DriverOutcomes :
        /\ conn # NoConn
        /\ last_op' = [name |-> "ping", on |-> conn.adapter, arg |-> "", outs |-> <<>>]
        /\ last_ret' = ping(conn, out).ret
        /\ conn' = ping(conn, out).conn
        /\ driver_calls' = ping(conn, out).driver
        /\ UNCHANGED <<resultVars, decodeVars, detailsVars, queryVars, indexVars, exportVars, laterVars>>

GetConnectionInfo ==
    \E out \in DriverOutcomes :
        /\ conn # NoConn
        /\ last_op' = [name |-> "get_connection_info", on |-> conn.adapter, arg |-> "", outs |-> <<>>]
        /\ last_ret' = get_connection_info(conn, out).ret
        /\ conn' = get_connection_info(conn, out).conn
        /\ driver_calls' = get_connection_info(conn, out).driver
        /\ UNCHANGED <<resultVars, decodeVars, detailsVars, queryVars, indexVars, exportVars, laterVars>>

Close ==
    /\ conn # NoConn /\ conn.closes < MaxCloses
    /\ last_op' = [name |-> "close", on |-> conn.adapter, arg |-> "", outs |-> <<>>]
    /\ last_ret' = close(conn).ret
    /\ conn' = close(conn).conn
    /\ driver_calls' = close(conn).driver
    /\ UNCHANGED <<resultVars, decodeVars, detailsVars, queryVars, indexVars, exportVars, laterVars>>

ExecuteQuery ==
    \E out \in FetchAllOutcomes :
        /\ conn # NoConn
        /\ last_op' = [name |-> "execute_query", on |-> conn.adapter, arg |-> "", outs |-> <<>>]
        /\ last_ret' = execute_query(conn, out).ret
        /\ conn' = execute_query(conn, out).conn
        /\ driver_calls' = execute_query(conn, out).driver
        /\ UNCHANGED <<resultVars, decodeVars, detailsVars, queryVars, indexVars, exportVars, laterVars>>

ListTables ==
    \E out \in DriverOutcomes :
        /\ conn # NoConn
        /\ last_op' = [name |-> "list_tables", on |-> conn.adapter, arg |-> "", outs |-> <<>>]
        /\ last_ret' = list_tables(conn, out).ret
        /\ conn' = list_tables(conn, out).conn
        /\ driver_calls' = list_tables(conn, out).driver
        /\ UNCHANGED <<resultVars, decodeVars, detailsVars, queryVars, indexVars, exportVars, laterVars>>

GetTableDetails ==
    \E table_name \in TableNames, outs \in [1..Len(SubCalls) -> DriverOutcomes] :
        /\ conn # NoConn
        /\ last_op' = [name |-> "get_table_details", on |-> conn.adapter,
                       arg |-> table_name, outs |-> outs]
        /\ last_ret' = get_table_details(conn, table_name, outs).ret
        /\ conn' = get_table_details(conn, table_name, outs).conn
        /\ driver_calls' = get_table_details(conn, table_name, outs).driver
        /\ UNCHANGED <<resultVars, decodeVars, detailsVars, queryVars, indexVars, exportVars, laterVars>>

\* the QueryExecutor hooks: MySqlConnection's are methods of the connection
\* object, the three *QueryExecutor structs hold a pool of their own
PrepareStatement ==
    \E impl \in QueryExecutorImpls :
        /\ impl = "MySqlConnection" => (conn # NoConn /\ conn.adapter = "MySQL")
        /\ last_op' = [name |-> "prepare_statement", on |-> impl, arg |-> "", outs |-> <<>>]
        /\ last_ret' = prepare_statement(impl)
        /\ driver_calls' = <<>>
        /\ UNCHANGED <<conn, resultVars, decodeVars, detailsVars, queryVars, indexVars, exportVars, laterVars>>

BeginTransaction ==
    \E impl \in QueryExecutorImpls :
        /\ impl = "MySqlConnection" => (conn # NoConn /\ conn.adapter = "MySQL")
        /\ last_op' = [name |-> "begin_transaction", on |-> impl, arg |-> "", outs |-> <<>>]
        /\ last_ret' = begin_transaction(impl)
        /\ driver_calls' = <<>>
        /\ UNCHANGED <<conn, resultVars, decodeVars, detailsVars, queryVars, indexVars, exportVars, laterVars>>

InitConn ==
    /\ ConnIdle /\ ResultIdle /\ DecodeIdle /\ DetailsIdle
    /\ QueryIdle /\ IndexIdle /\ ExportIdle /\ LaterIdle

NextConn ==
    \/ Connect
    \/ Ping
    \/ GetConnectionInfo
    \/ Close
    \/ ExecuteQuery
    \/ ListTables
    \/ GetTableDetails
    \/ PrepareStatement
    \/ BeginTransaction

SpecConn == InitConn /\ [][NextConn]_vars

NonCloseOperations ==
    {"ping", "get_connection_info", "execute_query", "list_tables", "get_table_details"}

IsErr(ret, kind) == ~ret.ok /\ ret.kind = kind

\* C2: once close() has been called on a connection, every later call of
\* ping, get_connection_info, execute_query, list_tables or get_table_details
\* returns a Connection error.  (close sets last_op to "close" and the closed
\* state is never left, so one of these as last_op of a closed connection is a
\* call made after close.)
C2_OperationAfterCloseIsConnectionError ==
    (conn # NoConn /\ conn.closes >= 1 /\ last_op.name \in NonCloseOperations)
        => IsErr(last_ret, "Connection")

\* C6: is_connected() is true right after a successful connect; from the
\* first close() on it is false whatever is called next; every close(), the
\* second and later ones too, returns Ok and leaves the connection closed.
C6_CloseIdempotentAbsorbing ==
    /\ (last_op.name = "connect" /\ last_ret.ok) => (conn # NoConn /\ is_connected(conn))
    /\ (conn # NoConn /\ conn.closes >= 1) => ~is_connected(conn)
    /\ last_op.name = "close" => (last_ret.ok /\ conn # NoConn /\ ~is_connected(conn))
    /\ (conn # NoConn /\ conn.closes = 0) => is_connected(conn)

\* C6 witness: a second close has returned Ok.
C6_Witness ==
    /\ conn # NoConn
    /\ conn.closes >= 2
    /\ last_op.name = "close"
    /\ last_ret.ok

MismatchedConnect == last_op.name = "connect" /\ last_op.arg # last_op.on

\* C7 as stated: connect with a config of another backend kind fails with a
\* Connection error, before any attempt to open a pool, and returns no
\* connection object.
C7_MismatchIsConnectionError ==
    MismatchedConnect =>
        (IsErr(last_ret, "Connection") /\ driver_calls = <<>> /\ conn = NoConn)

\* C7 amended: connect with a config of another backend kind fails with a
\* Configuration error, before any attempt to open a pool (the driver is not
\* called), and returns no connection object.
C7_MismatchIsConfigurationError ==
    MismatchedConnect =>
        (IsErr(last_ret, "Configuration") /\ driver_calls = <<>> /\ conn = NoConn)

\* C7 witness: a MySQL connect was handed a PostgreSQL config and failed.
C7_Witness ==
    /\ MismatchedConnect
    /\ last_op.on = "MySQL"
    /\ last_op.arg = "PostgreSQL"
    /\ ~last_ret.ok

\* C8: prepare_statement and begin_transaction return the NotImplemented
\* error from every QueryExecutor implementation, in every state.
C8_HooksReturnNotImplemented ==
    last_op.name \in {"prepare_statement", "begin_transaction"}
        => IsErr(last_ret, "NotImplemented")

(***************************************************************************)
(* execute_query as a whole, on the six implementations.                   *)
(*                                                                         *)
(* The three *QueryExecutor structs read a row by position (0..row.len()), *)
(* build the result with QueryResult::new and report a failed fetch as     *)
(* QueryExecution; the connection objects read a row by column name and    *)
(* report a failed fetch as Query (execute_query above).                   *)
(***************************************************************************)
QueryExecutorDecode(impl, c) ==
    CASE impl = "MySqlQueryExecutor" -> MySqlQueryExecutor_decode(c).value
      [] impl = "PostgresQueryExecutor" -> PostgresQueryExecutor_decode(c).value
      [] impl = "SqliteQueryExecutor" -> SqliteQueryExecutor_decode(c).value

\* an execute_query that reports the statement's columns for an empty result
QueryExecutor_execute_query_keeps_columns(impl, out) ==
    LET fetched == map_err(out, "QueryExecution")
        names   == fetched.val.columns
    IN  IF ~fetched.ok THEN fetched
        ELSE Ok(QueryResult_new([i \in 1..Len(names) |-> ColumnInfo(names[i], "")],
                                <<>>, "t"))

QueryExecutor_execute_query(impl, out) ==
    LET fetched == map_err(out, "QueryExecution")
        names   == fetched.val.columns
        rows    == fetched.val.rows
        columns == [i \in 1..Len(names) |-> ColumnInfo(names[i], rows[1][i].type_name)]
        result_rows ==
            [r \in 1..Len(rows) |->
                Row([i \in 1..Len(rows[r]) |->
                        QueryExecutorDecode(impl, CellOfColumn(rows[r][i],
                                                               columns[i].data_type))])]
    IN  IF ~fetched.ok THEN fetched
        ELSE IF rows = <<>> THEN Ok(QueryResult_new(<<>>, <<>>, "t"))
        ELSE Ok(QueryResult_new(columns, result_rows, "t"))

\* what the driver can answer: an error, or a rectangular result set (every
\* row of a statement has the statement's columns)
MaxFetchedRows == 2

ColumnNames == {<<"id">>, <<"id", "name">>, <<"id", "id">>}
QueryCells == {CellInt, CellText, CellNull, CellReal, CellBlob}

FetchedRows(width) ==
    UNION {[1..n -> [1..width -> QueryCells]] : n \in 0..MaxFetchedRows}

ScenarioResultSet ==
    [columns |-> <<"id", "name", "score">>, rows |-> << <<CellInt, CellText, CellReal>> >>]

FetchedSets ==
    UNION {{[columns |-> names, rows |-> rows] : rows \in FetchedRows(Len(names))}
              : names \in ColumnNames}
    \cup {ScenarioResultSet}

QueryOutcomes == {Ok(rs) : rs \in FetchedSets} \cup {Err("sqlx", "syntax")}

ExecuteMySqlQueryExecutor ==
    /\ xq = NoQuery
    /\ xq' = [path |-> "MySqlQueryExecutor",
              ret |-> QueryExecutor_execute_query("MySqlQueryExecutor", fetch_ret)]
    /\ UNCHANGED <<fetch_ret, resultVars, decodeVars, connVars, detailsVars,
                   indexVars, exportVars, laterVars>>

ExecutePostgresQueryExecutor ==
    /\ xq = NoQuery
    /\ xq' = [path |-> "PostgresQueryExecutor",
              ret |-> QueryExecutor_execute_query("PostgresQueryExecutor", fetch_ret)]
    /\ UNCHANGED <<fetch_ret, resultVars, decodeVars, connVars, detailsVars,
                   indexVars, exportVars, laterVars>>

ExecuteSqliteQueryExecutor ==
    /\ xq = NoQuery
    /\ xq' = [path |-> "SqliteQueryExecutor",
              ret |-> QueryExecutor_execute_query("SqliteQueryExecutor", fetch_ret)]
    /\ UNCHANGED <<fetch_ret, resultVars, decodeVars, connVars, detailsVars,
                   indexVars, exportVars, laterVars>>

ExecuteMySqlConnection ==
    /\ xq = NoQuery
    /\ xq' = [path |-> "MySqlConnection",
              ret |-> execute_query(Connection("MySQL"), fetch_ret).ret]
    /\ UNCHANGED <<fetch_ret, resultVars, decodeVars, connVars, detailsVars,
                   indexVars, exportVars, laterVars>>

ExecutePostgresConnection ==
    /\ xq = NoQuery
    /\ xq' = [path |-> "PostgresConnection",
              ret |-> execute_query(Connection("PostgreSQL"), fetch_ret).ret]
    /\ UNCHANGED <<fetch_ret, resultVars, decodeVars, connVars, detailsVars,
                   indexVars, exportVars, laterVars>>

ExecuteSqliteConnection ==
    /\ xq = NoQuery
    /\ xq' = [path |-> "SqliteConnection",
              ret |-> execute_query(Connection("SQLite"), fetch_ret).ret]
    /\ UNCHANGED <<fetch_ret, resultVars, decodeVars, connVars, detailsVars,
                   indexVars, exportVars, laterVars>>

InitQuery ==
    /\ fetch_ret \in QueryOutcomes /\ xq = NoQuery
    /\ ResultIdle /\ DecodeIdle /\ ConnIdle /\ DetailsIdle /\ IndexIdle /\ ExportIdle /\ LaterIdle

NextQuery ==
    \/ ExecuteMySqlQueryExecutor
    \/ ExecutePostgresQueryExecutor
    \/ ExecuteSqliteQueryExecutor
    \/ ExecuteMySqlConnection
    \/ ExecutePostgresConnection
    \/ ExecuteSqliteConnection

SpecQuery == InitQuery /\ [][NextQuery]_vars

HasExecuted == xq.path \in DecodePaths

\* the value the implementation `path` decodes the raw cell c to
PathDecode(path, c) ==
    CASE path = "MySqlQueryExecutor" -> MySqlQueryExecutor_decode(c).value
      [] path = "MySqlConnection" -> MySqlConnection_decode(c).value
      [] path = "PostgresQueryExecutor" -> PostgresQueryExecutor_decode(c).value
      [] path = "PostgresConnection" -> PostgresConnection_decode(c).value
      [] path = "SqliteQueryExecutor" -> SqliteQueryExecutor_decode(c).value
      [] path = "SqliteConnection" -> SqliteConnection_decode(c).value

\* a value that tells of a failed decoding: Value::Unknown, or the text
\* "Unknown type: .." the connection objects put into a Value::String
Diagnostic(v) ==
    \/ v.tag = "Unknown"
    \/ v.tag = "String" /\ Len(v.v) >= 1 /\ v.v[1] = "Unknown type: "

\* the fetch succeeded: the query returns Ok with one row per fetched row
QueryNeverFails ==
    (HasExecuted /\ fetch_ret.ok) =>
        /\ xq.ret.ok
        /\ Len(xq.ret.val.rows) = Len(fetch_ret.val.rows)
        /\ \A r \in 1..Len(fetch_ret.val.rows) :
               Len(xq.ret.val.rows[r].values) = Len(fetch_ret.val.rows[r])

\* C11: whenever the driver's fetch succeeds, execute_query returns
\* Ok(QueryResult) with one row per fetched row and one value per cell; a
\* non-null cell for which every probe fails contributes one diagnostic value
\* at its position and neither fails the query nor drops its row.
C11_DecodingNeverFailsQuery ==
    /\ QueryNeverFails
    /\ (HasExecuted /\ fetch_ret.ok) =>
           \A r \in 1..Len(fetch_ret.val.rows) :
               \A i \in 1..Len(fetch_ret.val.rows[r]) :
                   LET c == fetch_ret.val.rows[r][i]
                   IN  (~c.null /\ c.ok = {}) =>
                           /\ xq.ret.ok
                           /\ r <= Len(xq.ret.val.rows)
                           /\ i <= Len(xq.ret.val.rows[r].values)
                           /\ Diagnostic(xq.ret.val.rows[r].values[i])

\* C12: in every QueryResult an execute_query returns, each row has as many
\* values as the result has columns, column i is the statement's column i,
\* and the value at position i is the one decoded from the fetched row's
\* cell at position i.
C12_RowsMatchColumns ==
    (HasExecuted /\ fetch_ret.ok /\ xq.ret.ok) =>
        LET res == xq.ret.val
        IN  /\ Len(res.rows) = Len(fetch_ret.val.rows)
            /\ \A r \in 1..Len(res.rows) :
                   /\ Len(res.rows[r].values) = Len(res.columns)
                   /\ \A i \in 1..Len(res.columns) :
                          /\ res.columns[i].name = fetch_ret.val.columns[i]
                          /\ res.rows[r].values[i] =
                                 PathDecode(xq.path,
                                            CellOfColumn(fetch_ret.val.rows[r][i],
                                                         fetch_ret.val.rows[1][i].type_name))

SqlitePaths == {"SqliteQueryExecutor", "SqliteConnection"}

\* the storage class of a stored value, as the driver's extractions tell it:
\* an INTEGER is read by i64, a REAL by f64, a TEXT by String, and by none of
\* the earlier ones
SqliteStorageClass(c) ==
    IF c.null THEN "NULL"
    ELSE IF "i64" \in c.ok THEN "INTEGER"
    ELSE IF "f64" \in c.ok THEN "REAL"
    ELSE IF "String" \in c.ok THEN "TEXT"
    ELSE "BLOB"

\* C15: in the SQLite adapter the value at a cell's position is decoded from
\* that cell's own stored value, whatever the other rows of the column hold:
\* an integer-valued cell decodes to Integer, a real-valued cell to Float and
\* a text cell to String.
C15_SqliteDecodesByStoredValue ==
    (HasExecuted /\ xq.path \in SqlitePaths /\ fetch_ret.ok) =>
        /\ xq.ret.ok
        /\ \A r \in 1..Len(fetch_ret.val.rows) :
               \A i \in 1..Len(fetch_ret.val.rows[r]) :
                   LET c == fetch_ret.val.rows[r][i]
                       v == xq.ret.val.rows[r].values[i]
                   IN  /\ SqliteStorageClass(c) = "INTEGER" => v = ValueInteger(c.raw.int)
                       /\ SqliteStorageClass(c) = "REAL" => v = ValueFloat(c.raw.int)
                       /\ SqliteStorageClass(c) = "TEXT" => v = ValueString(<<c.raw.text>>)

\* C16: the get_table_details overrides of the PostgreSQL and SQLite
\* connections behave as the default composition does over the same catalog:
\* they return a TableDetails exactly when all four lookups (describe_table,
\* list_indexes, list_foreign_keys, get_table_row_count) succeed, and its
\* columns, indexes, foreign keys and row count are what those lookups return.
C16_OverridesPreserveDefault ==
    (/\ last_op.name = "get_table_details"
     /\ last_op.on \in {"PostgreSQL", "SQLite"}) =>
        LET lookups == [i \in 1..Len(SubCalls) |->
                           map_err(PoolFetch(conn, last_op.outs[i]), "SchemaInspection")]
            composed == default_get_table_details(last_op.arg, None, lookups).ret
        IN  /\ last_ret.ok <=> composed.ok
            /\ last_ret.ok =>
                   /\ last_ret.val.columns = composed.val.columns
                   /\ last_ret.val.indexes = composed.val.indexes
                   /\ last_ret.val.foreign_keys = composed.val.foreign_keys
                   /\ last_ret.val.statistics = composed.val.statistics

(***************************************************************************)
(* list_indexes.                                                           *)
(*                                                                         *)
(* The catalog of a table's indexes is a sequence of rows, one per (index, *)
(* column), in the order the backend reports them.  MySQL hands these rows *)
(* over as they are (SHOW INDEX); SQLite hands over the index names        *)
(* (PRAGMA index_list) and, per index, its columns (PRAGMA index_info);    *)
(* PostgreSQL hands over one row per index with the columns aggregated     *)
(* (GROUP BY .. array_agg).                                                *)
(* The MySQL code groups the rows in a HashMap and returns                 *)
(* into_values(): the Index values in the map's iteration order, which is  *)
(* any order of its keys.                                                  *)
(***************************************************************************)
Index(name, table_name, columns, is_unique, is_primary, index_type) ==
    [name |-> name, table_name |-> table_name, columns |-> columns,
     is_unique |-> is_unique, is_primary |-> is_primary, index_type |-> index_type]

\* a grouping that records the column of an index's first row only
GroupRows_first_row_only(rows, table_name, indexes) ==
    LET names == {rows[i].Key_name : i \in 1..Len(rows)}
        first(n) == CHOOSE i \in 1..Len(rows) :
                        rows[i].Key_name = n /\ \A j \in 1..(i - 1) : rows[j].Key_name # n
    IN  [n \in names |->
            Index(n, table_name, <<rows[first(n)].Column_name>>,
                  rows[first(n)].Non_unique = 0, n = "PRIMARY", rows[first(n)].Index_type)]

\* `for row in rows { indexes.entry(name).or_insert_with(..).columns.push(column) }`
RECURSIVE GroupRows(_, _, _)
GroupRows(rows, table_name, indexes) ==
    IF rows = <<>> THEN indexes
    ELSE LET row         == Head(rows)
             index_name  == row.Key_name
             entry       == IF index_name \in DOMAIN indexes THEN indexes[index_name]
                            ELSE Index(index_name, table_name, <<>>, row.Non_unique = 0,
                                       index_name = "PRIMARY", row.Index_type)
             pushed      == [entry EXCEPT !.columns = Append(@, row.Column_name)]
         IN  GroupRows(Tail(rows), table_name,
                       [k \in (DOMAIN indexes) \cup {index_name} |->
                           IF k = index_name THEN pushed ELSE indexes[k]])

\* the orders HashMap::into_values can yield the values in
KeyOrders(indexes) ==
    {o \in [1..Cardinality(DOMAIN indexes) -> DOMAIN indexes] :
        \A i, j \in 1..Cardinality(DOMAIN indexes) : o[i] = o[j] => i = j}

into_values(indexes, order) == [i \in 1..Len(order) |-> indexes[order[i]]]

MySql_list_indexes(out, table_name, order, kind) ==
    IF ~out.ok THEN map_err(out, kind)
    ELSE Ok(into_values(GroupRows(out.val, table_name, <<>>), order))

\* the backend's views of the catalog
RECURSIVE DistinctKeyNames(_)
DistinctKeyNames(rows) ==
    IF rows = <<>> THEN <<>>
    ELSE LET init == DistinctKeyNames(SubSeq(rows, 1, Len(rows) - 1))
             last == rows[Len(rows)].Key_name
         IN  IF \E i \in 1..Len(init) : init[i] = last THEN init ELSE Append(init, last)

RECURSIVE KeyColumns(_, _)
KeyColumns(rows, name) ==
    IF rows = <<>> THEN <<>>
    ELSE IF Head(rows).Key_name = name
    THEN <<Head(rows).Column_name>> \o KeyColumns(Tail(rows), name)
    ELSE KeyColumns(Tail(rows), name)

KeyNonUnique(rows, name) ==
    rows[CHOOSE i \in 1..Len(rows) : rows[i].Key_name = name].Non_unique

\* PRAGMA index_list(table): one row per index
PragmaIndexList(rows) ==
    [i \in 1..Len(DistinctKeyNames(rows)) |->
        [name |-> DistinctKeyNames(rows)[i],
         unique |-> IF KeyNonUnique(rows, DistinctKeyNames(rows)[i]) = 0 THEN 1 ELSE 0]]

\* PRAGMA index_info(index): one row per column of the index
PragmaIndexInfo(rows, name) ==
    [i \in 1..Len(KeyColumns(rows, name)) |-> [name |-> KeyColumns(rows, name)[i]]]

\* the pg_index query: one row per index, the columns in an array
PgIndexRows(rows, table_name) ==
    [i \in 1..Len(DistinctKeyNames(rows)) |->
        [index_name   |-> DistinctKeyNames(rows)[i],
         table_name   |-> table_name,
         is_unique    |-> KeyNonUnique(rows, DistinctKeyNames(rows)[i]) = 0,
         is_primary   |-> DistinctKeyNames(rows)[i] = "PRIMARY",
         column_names |-> KeyColumns(rows, DistinctKeyNames(rows)[i])]]

Sqlite_list_indexes(out, info, table_name) ==
    IF ~out.ok THEN map_err(out, "SchemaInspection")
    ELSE IF \E i \in 1..Len(out.val) : ~info[out.val[i].name].ok
    THEN map_err(info[out.val[CHOOSE i \in 1..Len(out.val) :
                                 /\ ~info[out.val[i].name].ok
                                 /\ \A j \in 1..(i - 1) : info[out.val[j].name].ok].name],
                 "SchemaInspection")
    ELSE Ok([i \in 1..Len(out.val) |->
                Index(out.val[i].name, table_name,
                      [j \in 1..Len(info[out.val[i].name].val) |->
                          info[out.val[i].name].val[j].name],
                      out.val[i].unique = 1, FALSE, "btree")])

Postgres_list_indexes(out) ==
    IF ~out.ok THEN map_err(out, "SchemaInspection")
    ELSE Ok([i \in 1..Len(out.val) |->
                Index(out.val[i].index_name, out.val[i].table_name,
                      out.val[i].column_names, out.val[i].is_unique,
                      out.val[i].is_primary, "btree")])

MaxCatalogRows == 3

KeyNames == {"PRIMARY", "idx_a", "uq_b"}
KeyColumnNames == {"id", "name"}

CatalogRow(key_name, column_name) ==
    [Key_name |-> key_name, Column_name |-> column_name,
     Non_unique |-> IF key_name = "idx_a" THEN 1 ELSE 0, Index_type |-> "BTREE"]

CatalogRows == {CatalogRow(k, c) : k \in KeyNames, c \in KeyColumnNames}
Catalogs == UNION {[1..n -> CatalogRows] : n \in 0..MaxCatalogRows}

FetchError == Err("sqlx", "io")

MySqlConnectionListIndexes ==
    \E out \in {Ok(catalog), FetchError} :
      \E order \in KeyOrders(GroupRows(catalog, "users", <<>>)) :
        /\ idx_ret = NoIndexes
        /\ idx_ret' = [impl |-> "MySqlConnection",
                       ret |-> MySql_list_indexes(out, "users", order, "Query")]
        /\ UNCHANGED <<catalog, resultVars, decodeVars, connVars, detailsVars,
                       queryVars, exportVars, laterVars>>

MySqlSchemaInspectorListIndexes ==
    \E out \in {Ok(catalog), FetchError} :
      \E order \in KeyOrders(GroupRows(catalog, "users", <<>>)) :
        /\ idx_ret = NoIndexes
        /\ idx_ret' = [impl |-> "MySqlSchemaInspector",
                       ret |-> MySql_list_indexes(out, "users", order, "SchemaInspection")]
        /\ UNCHANGED <<catalog, resultVars, decodeVars, connVars, detailsVars,
                       queryVars, exportVars, laterVars>>

SqliteSchemaInspectorListIndexes ==
    \E out \in {Ok(PragmaIndexList(catalog)), FetchError} :
      \E failing \in SUBSET KeyNames :
        /\ Cardinality(failing) <= 1
        /\ idx_ret = NoIndexes
        /\ idx_ret' = [impl |-> "SqliteSchemaInspector",
                       ret |-> Sqlite_list_indexes(out,
                                   [n \in KeyNames |->
                                       IF n \in failing THEN FetchError
                                       ELSE Ok(PragmaIndexInfo(catalog, n))],
                                   "users")]
        /\ UNCHANGED <<catalog, resultVars, decodeVars, connVars, detailsVars,
                       queryVars, exportVars, laterVars>>

PostgresSchemaInspectorListIndexes ==
    \E out \in {Ok(PgIndexRows(catalog, "users")), FetchError} :
        /\ idx_ret = NoIndexes
        /\ idx_ret' = [impl |-> "PostgresSchemaInspector", ret |-> Postgres_list_indexes(out)]
        /\ UNCHANGED <<catalog, resultVars, decodeVars, connVars, detailsVars,
                       queryVars, exportVars, laterVars>>

InitIndexes ==
    /\ catalog \in Catalogs /\ idx_ret = NoIndexes
    /\ ResultIdle /\ DecodeIdle /\ ConnIdle /\ DetailsIdle /\ QueryIdle /\ ExportIdle /\ LaterIdle

NextIndexes ==
    \/ MySqlConnectionListIndexes
    \/ MySqlSchemaInspectorListIndexes
    \/ SqliteSchemaInspectorListIndexes
    \/ PostgresSchemaInspectorListIndexes

SpecIndexes == InitIndexes /\ [][NextIndexes]_vars

\* the positions of the catalog rows of one index, and the k-th of them
RowsOfIndex(name) == {i \in 1..Len(catalog) : catalog[i].Key_name = name}

NthRowOfIndex(name, k) ==
    CHOOSE i \in RowsOfIndex(name) : Cardinality({j \in RowsOfIndex(name) : j <= i}) = k

\* C17: list_indexes returns exactly one Index per distinct index name of the
\* catalog rows, and no other; the Index's column list has one entry per
\* catalog row of that name, the rows' column names in catalog order.
C17_OneIndexPerNameColumnsInOrder ==
    (idx_ret.impl # "none" /\ idx_ret.ret.ok) =>
        LET indexes == idx_ret.ret.val
        IN  /\ \A i \in 1..Len(catalog) :
                   Cardinality({k \in 1..Len(indexes) :
                                   indexes[k].name = catalog[i].Key_name}) = 1
            /\ \A k \in 1..Len(indexes) :
                   /\ RowsOfIndex(indexes[k].name) # {}
                   /\ Len(indexes[k].columns) = Cardinality(RowsOfIndex(indexes[k].name))
                   /\ \A j \in 1..Len(indexes[k].columns) :
                          indexes[k].columns[j] =
                              catalog[NthRowOfIndex(indexes[k].name, j)].Column_name

\* C17 witness: a composite index whose rows are not adjacent in the catalog
\* was merged into one Index with both columns, next to another index.
C17_Witness ==
    /\ idx_ret.impl = "MySqlConnection"
    /\ idx_ret.ret.ok
    /\ Len(catalog) = 3
    /\ catalog[1].Key_name = catalog[3].Key_name
    /\ catalog[2].Key_name # catalog[1].Key_name
    /\ catalog[1].Column_name # catalog[3].Column_name
    /\ Len(idx_ret.ret.val) = 2
    /\ \E k \in 1..2 : Len(idx_ret.ret.val[k].columns) = 2

(***************************************************************************)
(* QueryResult::to_csv and QueryResult::to_tsv (result.rs).                *)
(*                                                                         *)
(* A String is the sequence of its characters.  The QueryResult handed to  *)
(* the exports is one an adapter or a constructor returned: every row has  *)
(* one value per column, and a result without columns has no rows.         *)
(***************************************************************************)
DigitChars == <<"0", "1", "2", "3", "4", "5", "6", "7", "8", "9">>

RECURSIVE Digits(_)
Digits(n) ==
    IF n < 10 THEN <<DigitChars[n + 1]>>
    ELSE Digits(n \div 10) \o <<DigitChars[(n % 10) + 1]>>

\* impl Display for Value
to_string(v) ==
    CASE v.tag = "Integer" -> IF v.v < 0 THEN <<"-">> \o Digits(-v.v) ELSE Digits(v.v)
      [] v.tag = "Float" -> IF v.v < 0 THEN <<"-">> \o Digits(-v.v) ELSE Digits(v.v)
      [] v.tag = "Boolean" -> IF v.v THEN <<"t", "r", "u", "e">> ELSE <<"f", "a", "l", "s", "e">>
      [] v.tag = "Null" -> <<"N", "U", "L", "L">>
      [] OTHER -> v.v

contains(s, ch) == \E i \in 1..Len(s) : s[i] = ch

\* str::replace: every character of `from` becomes the characters `to`
RECURSIVE replace(_, _, _)
replace(s, from, to) ==
    IF s = <<>> THEN <<>>
    ELSE (IF Head(s) \in from THEN to ELSE <<Head(s)>>) \o replace(Tail(s), from, to)

\* [String]::join
RECURSIVE join(_, _)
join(strs, sep) ==
    IF strs = <<>> THEN <<>>
    ELSE IF Len(strs) = 1 THEN strs[1]
    ELSE strs[1] \o sep \o join(Tail(strs), sep)

\* a cell closure that quotes without doubling the quotes inside
csv_value_quotes_not_doubled(v) ==
    LET s == to_string(v)
    IN  IF contains(s, ",") \/ contains(s, "\"") \/ contains(s, "\n")
        THEN <<"\"">> \o s \o <<"\"">>
        ELSE s

csv_value(v) ==
    LET s == to_string(v)
    IN  IF contains(s, ",") \/ contains(s, "\"") \/ contains(s, "\n")
        THEN <<"\"">> \o replace(s, {"\""}, <<"\"", "\"">>) \o <<"\"">>
        ELSE s

\* a cell closure that replaces the tabs and leaves the newlines
tsv_value_tabs_only(v) == replace(to_string(v), {"\t"}, <<" ">>)

tsv_value(v) == replace(to_string(v), {"\t", "\n"}, <<" ">>)

headers(result) == [i \in 1..Len(result.columns) |-> result.columns[i].name]

RECURSIVE csv_rows(_)
csv_rows(rows) ==
    IF rows = <<>> THEN <<>>
    ELSE join([i \in 1..Len(rows[1].values) |-> csv_value(rows[1].values[i])], <<",">>)
         \o <<"\n">> \o csv_rows(Tail(rows))

to_csv(result) == join(headers(result), <<",">>) \o <<"\n">> \o csv_rows(result.rows)

RECURSIVE tsv_rows(_)
tsv_rows(rows) ==
    IF rows = <<>> THEN <<>>
    ELSE join([i \in 1..Len(rows[1].values) |-> tsv_value(rows[1].values[i])], <<"\t">>)
         \o <<"\n">> \o tsv_rows(Tail(rows))

to_tsv(result) == join(headers(result), <<"\t">>) \o <<"\n">> \o tsv_rows(result.rows)

MaxTextLen == 3
MaxExportRows == 2

Chars == {"a", ",", "\"", "\n", "\t"}
Texts == UNION {[1..n -> Chars] : n \in 0..MaxTextLen}

ExportColumnNames == {<<"i", "d">>, <<"a", ",", "b">>, <<"t", "\t">>}
ExportValues ==
    {ValueString(<<"a">>), ValueString(<<"\"", ",">>), ValueString(<<"\t", "\n">>), ValueNull}
CellValues ==
    {ValueString(t) : t \in Texts} \cup {ValueInteger(7), ValueInteger(-12), ValueBoolean(TRUE)}

ExportColumns ==
    UNION {[1..w -> {ColumnInfo(n, "TEXT") : n \in ExportColumnNames}] : w \in 1..2}

ExportRows(width, values, max) ==
    UNION {[1..n -> {Row(vs) : vs \in [1..width -> values]}] : n \in 0..max}

\* one column and one row holding any text, or up to two columns and
\* MaxExportRows rows of a few values, or nothing at all
ExportResults ==
    {QueryResult_new(<<ColumnInfo(<<"i", "d">>, "TEXT")>>, <<Row(<<v>>)>>, "t") : v \in CellValues}
    \cup UNION {{QueryResult_new(cols, rows, "t") :
                    rows \in ExportRows(Len(cols), ExportValues, MaxExportRows)}
                   : cols \in ExportColumns}
    \cup {QueryResult_new(<<>>, <<>>, "t")}

ToCsv ==
    /\ ex_out = NoExport
    /\ ex_out' = [op |-> "to_csv", text |-> to_csv(ex_in)]
    /\ UNCHANGED <<ex_in, resultVars, decodeVars, connVars, detailsVars, queryVars, indexVars, laterVars>>

ToTsv ==
    /\ ex_out = NoExport
    /\ ex_out' = [op |-> "to_tsv", text |-> to_tsv(ex_in)]
    /\ UNCHANGED <<ex_in, resultVars, decodeVars, connVars, detailsVars, queryVars, indexVars, laterVars>>

InitExport ==
    /\ ex_in \in ExportResults /\ ex_out = NoExport
    /\ ResultIdle /\ DecodeIdle /\ ConnIdle /\ DetailsIdle /\ QueryIdle /\ IndexIdle
    /\ LaterIdle

NextExport == ToCsv \/ ToTsv

SpecExport == InitExport /\ [][NextExport]_vars

\* the pieces one after another, `sep` between two of them and `end` after
\* the last
RECURSIVE Flatten(_, _, _)
Flatten(pieces, sep, end) ==
    IF pieces = <<>> THEN <<>>
    ELSE pieces[1] \o (IF Len(pieces) = 1 THEN end ELSE sep)
         \o Flatten(Tail(pieces), sep, end)

Line(cells, sep) == IF cells = <<>> THEN <<"\n">> ELSE Flatten(cells, sep, <<"\n">>)

QuotesBefore(text, i) == Cardinality({j \in 1..(i - 1) : text[j] = "\""})

\* text with every double quote doubled, said by positions: character i of
\* text sits at i + QuotesBefore(text, i), a quote once more right after it
Doubled(text) ==
    [k \in 1..(Len(text) + QuotesBefore(text, Len(text) + 1)) |->
        text[CHOOSE i \in 1..Len(text) :
                \/ k = i + QuotesBefore(text, i)
                \/ text[i] = "\"" /\ k = i + QuotesBefore(text, i) + 1]]

NeedsQuotes(text) == \E i \in 1..Len(text) : text[i] \in {",", "\"", "\n"}

CsvCell(v) ==
    IF NeedsQuotes(to_string(v)) THEN <<"\"">> \o Doubled(to_string(v)) \o <<"\"">>
    ELSE to_string(v)

\* C18: to_csv outputs the column names joined by ',' as the first line, then
\* one line per row in row order, each line ended by a newline; a cell is the
\* value's Display text, wrapped in double quotes with every inner double
\* quote doubled if and only if the text contains a comma, a double quote or
\* a newline, and unchanged otherwise.
C18_CsvExport ==
    ex_out.op = "to_csv" =>
        ex_out.text =
            Line(headers(ex_in), <<",">>)
            \o Flatten([r \in 1..Len(ex_in.rows) |->
                           Line([i \in 1..Len(ex_in.rows[r].values) |->
                                    CsvCell(ex_in.rows[r].values[i])], <<",">>)],
                       <<>>, <<>>)

\* C18 witness: a cell with a double quote and a comma inside was exported.
C18_Witness ==
    /\ ex_out.op = "to_csv"
    /\ Len(ex_in.rows) = 1
    /\ Len(ex_in.columns) = 1
    /\ ex_in.rows[1].values[1] = ValueString(<<"a", "\"", ",">>)
    /\ ex_out.text = <<"i", "d", "\n", "\"", "a", "\"", "\"", ",", "\"", "\n">>

TsvCell(v) ==
    [i \in 1..Len(to_string(v)) |->
        IF to_string(v)[i] \in {"\t", "\n"} THEN " " ELSE to_string(v)[i]]

Count(s, ch) == Cardinality({i \in 1..Len(s) : s[i] = ch})

\* the k-th line of a text: what lies between its (k-1)-th and k-th newline
NewlineAt(s, k) ==
    IF k = 0 THEN 0
    ELSE CHOOSE i \in 1..Len(s) : s[i] = "\n" /\ Count(SubSeq(s, 1, i), "\n") = k

NthLine(s, k) == SubSeq(s, NewlineAt(s, k - 1) + 1, NewlineAt(s, k) - 1)

\* C19: to_tsv outputs the column names joined by tab as the first line, then
\* one line per row in row order; a cell is the value's Display text with
\* every tab and every newline replaced by one space and nothing else
\* changed.  When no column name contains a tab or a newline the output has
\* exactly rows.len()+1 lines, and each data line has exactly columns-1 tabs.
C19_TsvExport ==
    ex_out.op = "to_tsv" =>
        /\ ex_out.text =
               Line(headers(ex_in), <<"\t">>)
               \o Flatten([r \in 1..Len(ex_in.rows) |->
                              Line([i \in 1..Len(ex_in.rows[r].values) |->
                                       TsvCell(ex_in.rows[r].values[i])], <<"\t">>)],
                          <<>>, <<>>)
        /\ (\A i \in 1..Len(ex_in.columns) :
                ~contains(ex_in.columns[i].name, "\t") /\ ~contains(ex_in.columns[i].name, "\n"))
           => /\ Count(ex_out.text, "\n") = Len(ex_in.rows) + 1
              /\ ex_out.text[Len(ex_out.text)] = "\n"
              /\ \A r \in 1..Len(ex_in.rows) :
                     Count(NthLine(ex_out.text, r + 1), "\t") = Len(ex_in.columns) - 1

\* C19 witness: two rows of two columns, with a tab and a newline inside a
\* cell, were exported under clean column names.
C19_Witness ==
    /\ ex_out.op = "to_tsv"
    /\ Len(ex_in.columns) = 2
    /\ Len(ex_in.rows) = 2
    /\ \A i \in 1..2 : ex_in.columns[i].name = <<"i", "d">>
    /\ ex_in.rows[1].values[2] = ValueString(<<"\t", "\n">>)
    /\ Count(ex_out.text, "\n") = 3

\* C20: QueryResult::new returns a result whose total_rows equals rows.len(),
\* whose is_truncated is false and truncated_at is None, and whose rows and
\* columns are the ones given; a result of zero rows keeps the given columns.
C20_NewKeepsRowsAndColumns ==
    qr.op = "new" =>
        /\ qr.result.total_rows = Len(qr_args.rows)
        /\ qr.result.is_truncated = FALSE
        /\ qr.result.truncated_at = None
        /\ qr.result.rows = qr_args.rows
        /\ qr.result.columns = qr_args.columns
        /\ (qr_args.rows = <<>> => Len(qr.result.columns) = Len(qr_args.columns))

\* C20 witness: new() was given one column and no rows.
C20_Witness ==
    /\ qr.op = "new"
    /\ qr_args.rows = <<>>
    /\ Len(qr_args.columns) = 1
    /\ qr.result.total_rows = 0

(***************************************************************************)
(* ConnectionFactory::validate_config (factory.rs).                        *)
(***************************************************************************)
ConnectionConfig(name, database_type, host, port, database, username) ==
    [name |-> name, database_type |-> database_type, host |-> host, port |-> port,
     database |-> database, username |-> username, password |-> None,
     ssl |-> FALSE, ssh_tunnel |-> None]

is_empty(s) == Len(s) = 0

\* a validate_config that wants a host for the file-based backend too
validate_config_host_always(config) ==
    IF is_empty(config.name)
    THEN Err("Configuration", "Connection name cannot be empty")
    ELSE IF is_empty(config.host)
    THEN Err("Configuration", "Host cannot be empty for network databases")
    ELSE IF is_empty(config.database)
    THEN Err("Configuration", "Database name/path cannot be empty")
    ELSE Ok(<<>>)

validate_config(config) ==
    IF is_empty(config.name)
    THEN Err("Configuration", "Connection name cannot be empty")
    ELSE IF is_empty(config.host) /\ config.database_type # "SQLite"
    THEN Err("Configuration", "Host cannot be empty for network databases")
    ELSE IF is_empty(config.database)
    THEN Err("Configuration", "Database name/path cannot be empty")
    ELSE IF is_empty(config.username) /\ config.database_type # "SQLite"
    THEN Err("Configuration", "Username cannot be empty for network databases")
    ELSE IF config.database_type # "SQLite" /\ config.port = 0
    THEN Err("Configuration", "Port number must be greater than 0 for network databases")
    ELSE Ok(<<>>)

Ports == {0, 1, 3306, 65535}

ConnectionConfigs ==
    {ConnectionConfig(name, database_type, host, port, database, username) :
        name \in {"", "test"}, database_type \in DatabaseType,
        host \in {"", "localhost"}, port \in Ports,
        database \in {"", "testdb"}, username \in {"", "user"}}

ValidateConfig ==
    /\ vc_ret = NoRet
    /\ vc_ret' = validate_config(vc_config)
    /\ UNCHANGED <<vc_config, resultVars, decodeVars, connVars, detailsVars, queryVars,
                   indexVars, exportVars, configVars, uiVars, managerVars, tuiVars,
                   widenVars>>

InitValidate ==
    /\ vc_config \in ConnectionConfigs /\ vc_ret = NoRet
    /\ ResultIdle /\ DecodeIdle /\ ConnIdle /\ DetailsIdle /\ QueryIdle /\ IndexIdle
    /\ ExportIdle /\ ConfigIdle /\ UiIdle /\ ManagerIdle /\ TuiIdle /\ WidenIdle

NextValidate == ValidateConfig

SpecValidate == InitValidate /\ [][NextValidate]_vars

\* C21: validate_config returns a Configuration error if and only if the
\* name is empty, or the database/path is empty, or the backend kind is not
\* SQLite and (the host is empty or the username is empty or the port is 0);
\* otherwise it returns Ok.
C21_ValidateConfig ==
    vc_ret # NoRet =>
        LET invalid ==
                \/ vc_config.name = ""
                \/ vc_config.database = ""
                \/ /\ vc_config.database_type # "SQLite"
                   /\ (vc_config.host = "" \/ vc_config.username = "" \/ vc_config.port = 0)
        IN  /\ invalid => (~vc_ret.ok /\ vc_ret.kind = "Configuration")
            /\ ~invalid => vc_ret = Ok(<<>>)

\* C21 witness: a SQLite config with empty host, empty username and port 0
\* was validated and found valid.
C21_Witness ==
    /\ vc_ret = Ok(<<>>)
    /\ vc_config.database_type = "SQLite"
    /\ vc_config.host = "" /\ vc_config.username = "" /\ vc_config.port = 0

(***************************************************************************)
(* SqlTermConfig (config.rs): the connection list and                      *)
(* settings.default_connection.  The other settings are never written by   *)
(* the methods below.  A method on &mut self answers [self, ret].          *)
(***************************************************************************)
SqlTermConfig_default == [connections |-> <<>>, default_connection |-> None]

any(connections, name) == \E i \in 1..Len(connections) : connections[i].name = name

retain(connections, name) == SelectSeq(connections, LAMBDA c : c.name # name)

\* an add_connection that pushes without looking at the names
add_connection_unchecked(self, connection) ==
    [self |-> [self EXCEPT !.connections = Append(self.connections, connection)],
     ret  |-> Ok(<<>>)]

add_connection(self, connection) ==
    IF any(self.connections, connection.name)
    THEN [self |-> self,
          ret  |-> Err("Configuration",
                       <<"Connection with name '", connection.name, "' already exists">>)]
    ELSE [self |-> [self EXCEPT !.connections = Append(self.connections, connection)],
          ret  |-> Ok(<<>>)]

\* a remove_connection that leaves the default pointing at the removed name
remove_connection_keeps_default(self, name) ==
    IF Len(retain(self.connections, name)) = Len(self.connections)
    THEN [self |-> self, ret |-> Err("Configuration", <<"Connection '", name, "' not found">>)]
    ELSE [self |-> [self EXCEPT !.connections = retain(self.connections, name)],
          ret  |-> Ok(<<>>)]

remove_connection(self, name) ==
    LET initial_len == Len(self.connections)
        retained    == retain(self.connections, name)
    IN  IF Len(retained) = initial_len
        THEN [self |-> [self EXCEPT !.connections = retained],
              ret  |-> Err("Configuration", <<"Connection '", name, "' not found">>)]
        ELSE [self |-> [connections |-> retained,
                        default_connection |->
                            IF self.default_connection = Some(name) THEN None
                            ELSE self.default_connection],
              ret  |-> Ok(<<>>)]

get_connection(self, name) ==
    IF any(self.connections, name)
    THEN Some(self.connections[CHOOSE i \in 1..Len(self.connections) :
                  /\ self.connections[i].name = name
                  /\ \A j \in 1..(i - 1) : self.connections[j].name # name])
    ELSE None

get_default_connection(self) ==
    IF is_some(self.default_connection)
    THEN get_connection(self, self.default_connection.val)
    ELSE IF self.connections = <<>> THEN None ELSE Some(self.connections[1])

set_default_connection(self, name) ==
    IF ~any(self.connections, name)
    THEN [self |-> self, ret |-> Err("Configuration", <<"Connection '", name, "' not found">>)]
    ELSE [self |-> [self EXCEPT !.default_connection = Some(name)], ret |-> Ok(<<>>)]

ConnectionNames == {"alpha", "beta", "gamma"}

\* two configurations may share a name and differ in the rest
SavedConfigs ==
    {ConnectionConfig(name, "SQLite", "", 0, database, "") :
        name \in ConnectionNames, database \in {"one.db", "two.db"}}

ConfigCall(name, arg, ret) == [name |-> name, arg |-> arg, ret |-> ret, before |-> stc]

AddConnection ==
    \E connection \in SavedConfigs :
        /\ stc' = add_connection(stc, connection).self
        /\ stc_call' = ConfigCall("add_connection", connection,
                                  add_connection(stc, connection).ret)
        /\ UNCHANGED <<resultVars, decodeVars, connVars, detailsVars, queryVars, indexVars,
                       exportVars, validateVars, uiVars, managerVars, tuiVars, widenVars>>

RemoveConnection ==
    \E name \in ConnectionNames :
        /\ stc' = remove_connection(stc, name).self
        /\ stc_call' = ConfigCall("remove_connection", name, remove_connection(stc, name).ret)
        /\ UNCHANGED <<resultVars, decodeVars, connVars, detailsVars, queryVars, indexVars,
                       exportVars, validateVars, uiVars, managerVars, tuiVars, widenVars>>

SetDefaultConnection ==
    \E name \in ConnectionNames :
        /\ stc' = set_default_connection(stc, name).self
        /\ stc_call' = ConfigCall("set_default_connection", name,
                                  set_default_connection(stc, name).ret)
        /\ UNCHANGED <<resultVars, decodeVars, connVars, detailsVars, queryVars, indexVars,
                       exportVars, validateVars, uiVars, managerVars, tuiVars, widenVars>>

GetDefaultConnection ==
    /\ stc_call' = ConfigCall("get_default_connection", <<>>, get_default_connection(stc))
    /\ UNCHANGED <<stc, resultVars, decodeVars, connVars, detailsVars, queryVars, indexVars,
                   exportVars, validateVars, uiVars, managerVars, tuiVars, widenVars>>

InitConfig ==
    /\ stc = SqlTermConfig_default /\ stc_call = NoCall
    /\ ResultIdle /\ DecodeIdle /\ ConnIdle /\ DetailsIdle /\ QueryIdle /\ IndexIdle
    /\ ExportIdle /\ ValidateIdle /\ UiIdle /\ ManagerIdle /\ TuiIdle /\ WidenIdle

NextConfig ==
    \/ AddConnection
    \/ RemoveConnection
    \/ SetDefaultConnection
    \/ GetDefaultConnection

SpecConfig == InitConfig /\ [][NextConfig]_vars

NamesOf(connections) == {connections[i].name : i \in 1..Len(connections)}

\* C22: the names in connections are pairwise distinct after any sequence of
\* add_connection, remove_connection and set_default_connection from the
\* default config; add_connection with a name already present returns a
\* Configuration error and leaves the connection list and settings unchanged.
C22_NameIsUniqueKey ==
    /\ \A i, j \in 1..Len(stc.connections) :
           i # j => stc.connections[i].name # stc.connections[j].name
    /\ (stc_call.name = "add_connection"
        /\ stc_call.arg.name \in NamesOf(stc_call.before.connections))
           => /\ ~stc_call.ret.ok
              /\ stc_call.ret.kind = "Configuration"
              /\ stc = stc_call.before

\* C22 witness: a second configuration under a name already present, differing
\* in its database, was refused while two connections were stored.
C22_Witness ==
    /\ stc_call.name = "add_connection"
    /\ ~stc_call.ret.ok
    /\ Len(stc.connections) = 2
    /\ \E i \in 1..2 : /\ stc.connections[i].name = stc_call.arg.name
                       /\ stc.connections[i].database # stc_call.arg.database

\* C29: settings.default_connection is None or the name of a connection in
\* the list; set_default_connection or remove_connection with an unknown name
\* returns a Configuration error and changes nothing; get_default_connection
\* returns the named default when one is set and otherwise the first
\* connection.
C29_DefaultNamesAConnection ==
    /\ is_some(stc.default_connection) =>
           stc.default_connection.val \in NamesOf(stc.connections)
    /\ (stc_call.name \in {"set_default_connection", "remove_connection"}
        /\ stc_call.arg \notin NamesOf(stc_call.before.connections))
           => /\ ~stc_call.ret.ok
              /\ stc_call.ret.kind = "Configuration"
              /\ stc = stc_call.before
    /\ stc_call.name = "get_default_connection" =>
           IF is_some(stc.default_connection)
           THEN /\ is_some(stc_call.ret)
                /\ stc_call.ret.val.name = stc.default_connection.val
                /\ \E i \in 1..Len(stc.connections) : stc.connections[i] = stc_call.ret.val
           ELSE IF Len(stc.connections) = 0 THEN stc_call.ret = None
           ELSE stc_call.ret = Some(stc.connections[1])

\* C29 witness: the default connection was removed while another connection
\* stayed, and the default went back to None.
C29_Witness ==
    /\ stc_call.name = "remove_connection"
    /\ stc_call.ret.ok
    /\ stc_call.before.default_connection = Some(stc_call.arg)
    /\ stc.default_connection = None
    /\ Len(stc.connections) >= 1

(***************************************************************************)
(* The UI ConfigManager (sqlterm-ui/src/config.rs): one TOML file per      *)
(* saved connection in the connections directory.  A connection name is    *)
(* the sequence of its characters; `files` maps each existing file path to *)
(* its content, the TOML table as the set of its keys with their values.   *)
(* The file system is one that works: fs::write and fs::remove_file do     *)
(* what they are asked.                                                    *)
(***************************************************************************)
SafeChars ==
    {"a", "b", "c", "d", "e", "f", "g", "h", "i", "j", "k", "l", "m", "n", "o", "p", "q",
     "r", "s", "t", "u", "v", "w", "x", "y", "z", "A", "B", "C", "D", "E", "F", "G", "H",
     "I", "J", "K", "L", "M", "N", "O", "P", "Q", "R", "S", "T", "U", "V", "W", "X", "Y",
     "Z", "0", "1", "2", "3", "4", "5", "6", "7", "8", "9", "-", "_"}

\* the file name; the directory is the same for every connection
get_connection_file_path(connection_name) ==
    [i \in 1..Len(connection_name) |->
        IF connection_name[i] \in SafeChars THEN connection_name[i] ELSE "_"]
    \o <<".toml">>

StoredConnectionConfig(connection, created_at, last_used) ==
    [connection |-> connection, created_at |-> created_at, last_used |-> last_used]

OptionKeys == {"password", "ssh_tunnel"}

\* toml::to_string_pretty: the flattened connection fields and created_at;
\* a None is not written
to_string_pretty(stored) ==
    LET table == [k \in (DOMAIN stored.connection) \cup {"created_at", "last_used"} |->
                     IF k = "created_at" THEN stored.created_at
                     ELSE IF k = "last_used" THEN stored.last_used
                     ELSE stored.connection[k]]
    IN  {<<k, IF k \in OptionKeys \cup {"last_used"} THEN table[k].val ELSE table[k]>> :
            k \in {k \in DOMAIN table : k \in OptionKeys \cup {"last_used"} => is_some(table[k])}}

\* toml::from_str: a missing Option key reads as None
from_str(content) ==
    LET keys == {kv[1] : kv \in content}
        get(k) == (CHOOSE kv \in content : kv[1] = k)[2]
        opt(k) == IF k \in keys THEN Some(get(k)) ELSE None
    IN  StoredConnectionConfig(
            [name |-> get("name"), database_type |-> get("database_type"),
             host |-> get("host"), port |-> get("port"), database |-> get("database"),
             username |-> get("username"), password |-> opt("password"),
             ssl |-> get("ssl"), ssh_tunnel |-> opt("ssh_tunnel")],
            get("created_at"), opt("last_used"))

exists(fs, file_path) == file_path \in DOMAIN fs

fs_write(fs, file_path, content) ==
    [p \in (DOMAIN fs) \cup {file_path} |-> IF p = file_path THEN content ELSE fs[p]]

fs_remove_file(fs, file_path) == [p \in (DOMAIN fs) \ {file_path} |-> fs[p]]

save_connection(fs, config) ==
    LET stored_config == StoredConnectionConfig(config, "now", None)
        toml_content  == to_string_pretty(stored_config)
        file_path     == get_connection_file_path(config.name)
    IN  [fs |-> fs_write(fs, file_path, toml_content), ret |-> Ok(<<>>)]

load_connection(fs, connection_name) ==
    LET file_path == get_connection_file_path(connection_name)
    IN  IF ~exists(fs, file_path)
        THEN Err("anyhow", <<"Connection '", connection_name, "' not found">>)
        ELSE Ok(from_str(fs[file_path]).connection)

delete_connection(fs, connection_name) ==
    LET file_path == get_connection_file_path(connection_name)
    IN  IF ~exists(fs, file_path)
        THEN [fs |-> fs,
              ret |-> Err("anyhow", <<"Connection '", connection_name, "' not found">>)]
        ELSE [fs |-> fs_remove_file(fs, file_path), ret |-> Ok(<<>>)]

connection_exists(fs, connection_name) ==
    exists(fs, get_connection_file_path(connection_name))

ManagerNames ==
    {<<"a">>, <<"a", "/", "b">>, <<"a", "_", "b">>, <<"a", ":", "b">>}

ManagerConfigs ==
    {[ConnectionConfig(name, "MySQL", "localhost", 3306, database, "user")
         EXCEPT !.password = password] :
        name \in ManagerNames, database \in {"one", "two"}, password \in {None, Some("pw")}}

NothingSaved == [n \in ManagerNames |-> None]

SaveConnection ==
    \E config \in ManagerConfigs :
        /\ files' = save_connection(files, config).fs
        /\ cm_saved' = [cm_saved EXCEPT ![config.name] = Some(config)]
        /\ cm_call' = [name |-> "save_connection", arg |-> config,
                       ret |-> save_connection(files, config).ret]
        /\ UNCHANGED <<resultVars, decodeVars, connVars, detailsVars, queryVars, indexVars,
                       exportVars, validateVars, configVars, uiVars, tuiVars, widenVars>>

LoadConnection ==
    \E connection_name \in ManagerNames :
        /\ cm_call' = [name |-> "load_connection", arg |-> connection_name,
                       ret |-> load_connection(files, connection_name)]
        /\ UNCHANGED <<files, cm_saved, resultVars, decodeVars, connVars, detailsVars,
                       queryVars, indexVars, exportVars, validateVars, configVars, uiVars,
                       tuiVars, widenVars>>

DeleteConnection ==
    \E connection_name \in ManagerNames :
        /\ files' = delete_connection(files, connection_name).fs
        /\ cm_saved' = [cm_saved EXCEPT ![connection_name] = None]
        /\ cm_call' = [name |-> "delete_connection", arg |-> connection_name,
                       ret |-> delete_connection(files, connection_name).ret]
        /\ UNCHANGED <<resultVars, decodeVars, connVars, detailsVars, queryVars, indexVars,
                       exportVars, validateVars, configVars, uiVars, tuiVars, widenVars>>

InitManager ==
    /\ files = <<>> /\ cm_saved = NothingSaved /\ cm_call = NoCall
    /\ ResultIdle /\ DecodeIdle /\ ConnIdle /\ DetailsIdle /\ QueryIdle /\ IndexIdle
    /\ ExportIdle /\ ValidateIdle /\ ConfigIdle /\ UiIdle /\ TuiIdle /\ WidenIdle

NextManager ==
    \/ SaveConnection
    \/ LoadConnection
    \/ DeleteConnection

SpecManager == InitManager /\ [][NextManager]_vars

\* C25: after any sequence of save_connection and delete_connection calls,
\* load_connection(n) returns the configuration most recently saved under
\* exactly the name n, also for names with characters other than letters,
\* digits, '-' and '_'; saving or deleting a connection with a different name
\* never changes or removes it.
C25_SavedConnectionsKeyedByName ==
    \A n \in ManagerNames :
        is_some(cm_saved[n]) => load_connection(files, n) = Ok(cm_saved[n].val)

(***************************************************************************)
(* The UI's connect_to_database: the TUI one (main.rs) on App and the      *)
(* conversation one (conversation.rs) on ConversationApp.                  *)
(*                                                                         *)
(* The part of the application state a connection attempt can touch is     *)
(*   active_connection, current_database, tables, selected_table,          *)
(*   connections (App only) and the files of the connections directory.    *)
(* `answers` is what the backend does during the attempt: whether the pool *)
(* connects, the ping, get_connection_info and list_tables succeed, and    *)
(* whether ConfigManager::new() finds its directory.  The log lines the    *)
(* functions add are left out.                                             *)
(***************************************************************************)
starts_with(s, prefix) ==
    Len(s) >= Len(prefix) /\ SubSeq(s, 1, Len(prefix)) = prefix

anyhow(msg) == Err("anyhow", msg)

Connected(config) == [adapter |-> config.database_type, config |-> config]

LoadedTables == <<"users", "posts">>

\* App::auto_save_connection_config
auto_save_connection_config(a, config, answers) ==
    IF ~answers.config_dir THEN a
    ELSE IF connection_exists(a.files, config.name) THEN a
    ELSE [a EXCEPT !.files = save_connection(a.files, config).fs,
                   !.connections = IF any(a.connections, config.name) THEN @
                                   ELSE Append(@, config)]

\* a connect_to_database that stores the connection before it tests it
connect_to_database_store_first(a, config, answers) ==
    IF ~validate_config(config).ok
    THEN [app |-> a, ret |-> anyhow("Configuration error")]
    ELSE IF ~connect(config.database_type, config.database_type, answers.connect).ret.ok
    THEN [app |-> a, ret |-> anyhow("connection failed")]
    ELSE IF ~answers.ping
    THEN [app |-> [a EXCEPT !.active_connection = Some(Connected(config))],
          ret |-> anyhow("Connection test failed")]
    ELSE [app |-> [a EXCEPT !.active_connection = Some(Connected(config))],
          ret |-> IF answers.info THEN Ok(<<>>) ELSE anyhow("info")]

\* main.rs
connect_to_database(a, config, answers) ==
    IF ~validate_config(config).ok
    THEN [app |-> a, ret |-> anyhow(<<"Configuration error: ", validate_config(config).msg>>)]
    ELSE IF ~connect(config.database_type, config.database_type, answers.connect).ret.ok
    THEN [app |-> a, ret |-> anyhow(<<config.database_type, " connection failed">>)]
    ELSE IF ~answers.ping
    THEN [app |-> a, ret |-> anyhow(<<"Connection test failed">>)]
    ELSE IF ~answers.info
    THEN [app |-> a, ret |-> Err("Connection", <<"get_connection_info">>)]
    ELSE LET stored == [a EXCEPT !.active_connection = Some(Connected(config)),
                                 !.current_database = Some(config.database),
                                 !.tables = IF answers.tables THEN LoadedTables ELSE <<>>,
                                 !.selected_table = 0]
         IN  [app |-> auto_save_connection_config(stored, config, answers),
              ret |-> Ok(<<>>)]

\* ConversationApp::auto_save_connection
auto_save_connection(a, config) ==
    IF ~connection_exists(a.files, config.name)
    THEN [a EXCEPT !.files = save_connection(a.files, config).fs]
    ELSE a

\* conversation.rs
ConversationApp_connect_to_database(a, config, answers) ==
    IF ~connect(config.database_type, config.database_type, answers.connect).ret.ok
    THEN [app |-> a, ret |-> anyhow(<<config.database_type, " connection failed">>)]
    ELSE IF ~answers.ping
    THEN [app |-> a, ret |-> Err("Connection", <<"ping">>)]
    ELSE IF ~answers.info
    THEN [app |-> a, ret |-> Err("Connection", <<"get_connection_info">>)]
    ELSE LET stored == [a EXCEPT !.active_connection = Some(Connected(config)),
                                 !.current_database = Some(config.database)]
         IN  [app |-> IF ~starts_with(config.name, <<"t", "e", "m", "p", "-">>)
                         /\ ~connection_exists(stored.files, config.name)
                      THEN auto_save_connection(stored, config)
                      ELSE stored,
              ret |-> Ok(<<>>)]

UiNames == {<<>>, <<"d", "b">>, <<"t", "e", "m", "p", "-", "1">>}

UiConfigs ==
    {ConnectionConfig(name, database_type, host, IF database_type = "SQLite" THEN 0 ELSE 3306,
                      "main", IF database_type = "SQLite" THEN "" ELSE "user") :
        name \in UiNames, database_type \in DatabaseType, host \in {"", "localhost"}}

Answers == [connect : BOOLEAN, ping : BOOLEAN, info : BOOLEAN, tables : BOOLEAN,
            config_dir : BOOLEAN]

Earlier == ConnectionConfig(<<"d", "b">>, "SQLite", "", 0, "old.db", "")

\* the application before the attempt: fresh, or with an earlier connection
Apps ==
    {[active_connection |-> IF active THEN Some(Connected(Earlier)) ELSE None,
      current_database  |-> IF active THEN Some("old.db") ELSE None,
      tables            |-> IF active THEN <<"orders">> ELSE <<>>,
      selected_table    |-> 0,
      connections       |-> IF listed THEN <<Earlier>> ELSE <<>>,
      files             |-> IF saved THEN save_connection(<<>>, Earlier).fs ELSE <<>>] :
        active \in BOOLEAN, listed \in BOOLEAN, saved \in BOOLEAN}

UiCall(variant, config, answers, ret) ==
    [name |-> variant, config |-> config, answers |-> answers, ret |-> ret, before |-> app]

ConnectToDatabase ==
    \E config \in UiConfigs, answers \in Answers :
        /\ ui_call = NoCall
        /\ app' = connect_to_database(app, config, answers).app
        /\ ui_call' = UiCall("main", config, answers,
                             connect_to_database(app, config, answers).ret)
        /\ UNCHANGED <<resultVars, decodeVars, connVars, detailsVars, queryVars, indexVars,
                       exportVars, validateVars, configVars, managerVars, tuiVars, widenVars>>

ConversationConnectToDatabase ==
    \E config \in UiConfigs, answers \in Answers :
        /\ ui_call = NoCall
        /\ app' = ConversationApp_connect_to_database(app, config, answers).app
        /\ ui_call' = UiCall("conversation", config, answers,
                             ConversationApp_connect_to_database(app, config, answers).ret)
        /\ UNCHANGED <<resultVars, decodeVars, connVars, detailsVars, queryVars, indexVars,
                       exportVars, validateVars, configVars, managerVars, tuiVars, widenVars>>

InitUi ==
    /\ app \in Apps /\ ui_call = NoCall
    /\ ResultIdle /\ DecodeIdle /\ ConnIdle /\ DetailsIdle /\ QueryIdle /\ IndexIdle
    /\ ExportIdle /\ ValidateIdle /\ ConfigIdle /\ ManagerIdle /\ TuiIdle /\ WidenIdle

NextUi == ConnectToDatabase \/ ConversationConnectToDatabase

SpecUi == InitUi /\ [][NextUi]_vars

\* a step of the attempt failed: the validation (where the function
\* validates), the adapter's connect, the ping or get_connection_info
StepFailed ==
    \/ /\ ui_call.name = "main"
       /\ \/ Len(ui_call.config.name) = 0
          \/ Len(ui_call.config.database) = 0
          \/ /\ ui_call.config.database_type # "SQLite"
             /\ \/ Len(ui_call.config.host) = 0
                \/ Len(ui_call.config.username) = 0
                \/ ui_call.config.port = 0
    \/ ~ui_call.answers.connect
    \/ ~ui_call.answers.ping
    \/ ~ui_call.answers.info

\* C23: a failed connection attempt stores nothing: when config validation,
\* the adapter's connect, the ping or get_connection_info fails inside
\* connect_to_database, the call returns an error and the active connection,
\* current database, table list, in-memory connection list and saved
\* connection files are all the same as before the attempt.
C23_FailedAttemptStoresNothing ==
    (ui_call # NoCall /\ StepFailed) =>
        /\ ~ui_call.ret.ok
        /\ app.active_connection = ui_call.before.active_connection
        /\ app.current_database = ui_call.before.current_database
        /\ app.tables = ui_call.before.tables
        /\ app.connections = ui_call.before.connections
        /\ app.files = ui_call.before.files

\* C23 witness: with an earlier connection active, a new connection was
\* opened, its ping failed, and the earlier connection is still the active one.
C23_Witness ==
    /\ ui_call # NoCall
    /\ ui_call.name = "main"
    /\ ui_call.config.name = <<"d", "b">>
    /\ ui_call.config.host = "localhost"
    /\ ui_call.answers.connect /\ ~ui_call.answers.ping
    /\ ~ui_call.ret.ok
    /\ app.active_connection = Some(Connected(Earlier))
    /\ app.files = <<>>

(***************************************************************************)
(* Value::Integer(val as i64): every place where a decoder stores an       *)
(* integer it extracted (mysql/query.rs 76-97 and 170-182,                 *)
(* mysql/connection.rs 178-203, postgres/query.rs 76-90 and 162-166,       *)
(* postgres/connection.rs 158-168, sqlite/query.rs 63,                     *)
(* sqlite/connection.rs 126-131).                                          *)
(***************************************************************************)
MaxDelta == 1

IntegerProbes ==
    ({"MySqlQueryExecutor"} \X {"i8", "i16", "i32", "i64", "u32", "u16", "u8"})
    \cup ({"MySqlConnection"} \X {"i32", "i64", "i16", "i8", "u32", "u64"})
    \cup ({"PostgresQueryExecutor"} \X {"i16", "i32", "i64"})
    \cup ({"PostgresConnection"} \X {"i32", "i64", "i16"})
    \cup ({"SqliteQueryExecutor"} \X {"i64"})
    \cup ({"SqliteConnection"} \X {"i64", "i32"})

Near(n, deltas) == {Num(n.base, n.off + d) : d \in deltas}

\* the numbers of type T at both ends of its range, around zero and, for
\* u64, at the two sides of 2^63
ValuesOf(T) ==
    Near(MinOf(T), 0..MaxDelta)
    \cup Near(MaxOf(T), (0 - MaxDelta)..0)
    \cup {Plain(42)}
    \cup (IF T \in {"i8", "i16", "i32", "i64"} THEN Near(Plain(0), (0 - MaxDelta)..0) ELSE {})
    \cup (IF T = "u64" THEN Near(Num("2^63", 0), (0 - MaxDelta)..MaxDelta) ELSE {})

StoreInteger ==
    /\ wd_out = NoCall
    /\ wd_out' = ValueInteger(as_i64(wd_in.t, wd_in.v))
    /\ UNCHANGED <<wd_in, resultVars, decodeVars, connVars, detailsVars, queryVars,
                   indexVars, exportVars, validateVars, configVars, uiVars, managerVars,
                   tuiVars>>

InitWiden ==
    /\ wd_in \in {[site |-> p[1], t |-> p[2], v |-> v] : p \in IntegerProbes, v \in
                     UNION {ValuesOf(T) : T \in IntegerTypes}}
    /\ wd_in.v \in ValuesOf(wd_in.t)
    /\ wd_out = NoCall
    /\ ResultIdle /\ DecodeIdle /\ ConnIdle /\ DetailsIdle /\ QueryIdle /\ IndexIdle
    /\ ExportIdle /\ ValidateIdle /\ ConfigIdle /\ UiIdle /\ ManagerIdle /\ TuiIdle

NextWiden == StoreInteger

SpecWiden == InitWiden /\ [][NextWiden]_vars

\* C24: widening into Value::Integer preserves the numeric value for every
\* integer probe the adapters perform (signed 8/16/32/64-bit, unsigned
\* 8/16/32-bit and the unsigned 64-bit probe of MySqlConnection): the stored
\* i64 equals the extracted number.
C24_WideningPreservesValue ==
    wd_out # NoCall => wd_out = ValueInteger(wd_in.v)

\* the order the fallback probe is specified to follow
FallbackProbeOrder ==
    <<"i32", "i64", "i16", "i8", "u32", "u16", "u8", "f64", "f32", "bool", "String">>

\* the declared types of the pool that no arm of the executors' match lists
UnlistedTypeNames(path) ==
    IF path \in MySqlAdapterPaths THEN {"INT4", "TIMESTAMPTZ", "BLOB", "NULL"}
    ELSE IF path \in PostgresAdapterPaths
    THEN {"TINYINT", "FLOAT", "DOUBLE", "JSON", "DATETIME", "BLOB", "NULL"}
    ELSE TypeNames

\* a non-null cell went through the fallback probe: any cell in SQLite, a
\* cell of an unlisted declared type in MySQL and PostgreSQL
UsesFallbackProbe ==
    /\ HasDecoded
    /\ ~is_null(cell)
    /\ cell.type_name \in UnlistedTypeNames(decoded.path)

\* C26: whenever an adapter uses the fallback probe it attempts extractions
\* in the fixed order i32, i64, i16, i8, u32, u16, u8, f64, f32, bool, text
\* and returns the result of the first attempt that succeeds; no later probe
\* is attempted after a success and no probe is attempted out of this order.
C26_FallbackProbeOrder ==
    UsesFallbackProbe =>
        LET n == Len(decoded.probes)
        IN  /\ n <= Len(FallbackProbeOrder)
            /\ \A i \in 1..n : decoded.probes[i].t = FallbackProbeOrder[i]
            /\ \A i \in 1..(n - 1) : ~try_get(cell, decoded.probes[i].t)
            /\ (\E i \in 1..Len(FallbackProbeOrder) : try_get(cell, FallbackProbeOrder[i]))
                   => /\ n >= 1
                      /\ try_get(cell, decoded.probes[n].t)
                      /\ decoded.value = Wrap(decoded.probes[n].t, cell.raw)

\* C27: in every adapter the decoder looks at the null marker before any
\* typed extraction and returns Value::Null at once for a null cell: no typed
\* probe is attempted on a null cell.
C27_NoProbeOnNullCell ==
    (HasDecoded /\ is_null(cell)) =>
        /\ decoded.probes = <<>>
        /\ decoded.value = ValueNull

\* C30: every QueryResult an adapter's execute_query returns is untruncated
\* with total_rows == rows.len(), is_truncated == false and truncated_at ==
\* None; and when the statement returns zero rows the result has an empty
\* column list as well, even if the statement selects columns.
C30_ResultsUntruncatedEmptyHasNoColumns ==
    (HasExecuted /\ xq.ret.ok) =>
        /\ xq.ret.val.total_rows = Len(xq.ret.val.rows)
        /\ xq.ret.val.is_truncated = FALSE
        /\ xq.ret.val.truncated_at = None
        /\ fetch_ret.val.rows = <<>> =>
               /\ xq.ret.val.columns = <<>>
               /\ xq.ret.val.rows = <<>>
               /\ xq.ret.val.total_rows = 0

\* C30 witness: a statement that selects two columns returned no row, and the
\* result has no columns.
C30_Witness ==
    /\ HasExecuted
    /\ xq.ret.ok
    /\ Len(fetch_ret.val.columns) = 2
    /\ fetch_ret.val.rows = <<>>
    /\ xq.ret.val.columns = <<>>
    /\ xq.ret.val.total_rows = 0

(***************************************************************************)
(* The TUI run loop (sqlterm-ui/src/main.rs): run_app_loop and             *)
(* handle_event over the App fields state, input_mode, should_quit and     *)
(* error_message (shown or not).  The state-specific key handlers are      *)
(* taken by what they can do to these fields: nothing, one of the          *)
(* App::switch_to_* calls, a change of input mode (enter_edit_mode,        *)
(* enter_visual_mode and their exits), App::set_error or returning an      *)
(* error (which the loop turns into set_error), and App::quit (the         *)
(* conversation's quit command).                                           *)
(***************************************************************************)
AppState ==
    {"ConnectionManager", "DatabaseBrowser", "QueryEditor", "Results", "AddConnection",
     "Conversation"}

App_new ==
    [state |-> "Conversation", input_mode |-> "Normal", should_quit |-> FALSE,
     error_message |-> FALSE, running |-> TRUE]

quit(a) == [a EXCEPT !.should_quit = TRUE]
set_error(a) == [a EXCEPT !.error_message = TRUE]
clear_error(a) == [a EXCEPT !.error_message = FALSE]

switch_to(a, state) ==
    [a EXCEPT !.state = state,
              !.input_mode = IF state = "AddConnection" THEN "Editing" ELSE "Normal"]

HandlerOutcomes ==
    {[kind |-> "nothing"], [kind |-> "set_error"], [kind |-> "quit"]}
    \cup {[kind |-> "switch_to", state |-> s] : s \in AppState}
    \cup {[kind |-> "input_mode", mode |-> m] : m \in {"Normal", "Editing", "Visual"}}

state_specific_keys(a, outcome) ==
    CASE outcome.kind = "nothing" -> a
      [] outcome.kind = "set_error" -> set_error(a)
      [] outcome.kind = "quit" -> quit(a)
      [] outcome.kind = "switch_to" -> switch_to(a, outcome.state)
      [] outcome.kind = "input_mode" -> [a EXCEPT !.input_mode = outcome.mode]

Events == {"Ctrl+C", "q", "Esc", "Key", "Tick", "Mouse", "Resize", "Err"}
KeyEvents == {"Ctrl+C", "q", "Esc", "Key"}

handle_event(a, event, outcome) ==
    IF event \notin KeyEvents THEN a
    ELSE IF a.error_message THEN clear_error(a)
    ELSE IF event = "q" /\ (a.input_mode = "Normal" \/ a.state = "ConnectionManager")
    THEN quit(a)
    ELSE IF event = "Ctrl+C" THEN quit(a)
    ELSE IF event = "Esc" /\ a.input_mode = "Normal"
    THEN (IF a.state = "ConnectionManager" THEN quit(a)
          ELSE switch_to(a, "ConnectionManager"))
    ELSE state_specific_keys(a, outcome)

\* one turn of the loop: draw, take the next event, handle it, test should_quit
run_app_loop(a, draw_ok, event, outcome) ==
    LET drawn   == IF draw_ok THEN a ELSE set_error(a)
        handled == IF event = "Err" THEN set_error(drawn)
                   ELSE handle_event(drawn, event, outcome)
    IN  [handled EXCEPT !.running = ~handled.should_quit]

RunAppLoop ==
    \E draw_ok \in BOOLEAN, event \in Events, outcome \in HandlerOutcomes :
        /\ tui.running
        /\ tui' = run_app_loop(tui, draw_ok, event, outcome)
        /\ tui_event' = [event |-> event, draw_ok |-> draw_ok, before |-> tui]
        /\ UNCHANGED <<resultVars, decodeVars, connVars, detailsVars, queryVars, indexVars,
                       exportVars, validateVars, configVars, uiVars, managerVars, widenVars>>

InitTui ==
    /\ tui = App_new /\ tui_event = NoCall
    /\ ResultIdle /\ DecodeIdle /\ ConnIdle /\ DetailsIdle /\ QueryIdle /\ IndexIdle
    /\ ExportIdle /\ ValidateIdle /\ ConfigIdle /\ UiIdle /\ ManagerIdle /\ WidenIdle

NextTui == RunAppLoop

SpecTui == InitTui /\ [][NextTui]_vars

\* C28: Ctrl+C always quits: in every application state and input mode, and
\* whether or not an error message is being shown, handling a Ctrl+C key
\* event sets should_quit, and the run loop exits after that event.
C28_CtrlCAlwaysQuits ==
    (tui_event # NoCall /\ tui_event.event = "Ctrl+C") =>
        /\ tui.should_quit
        /\ ~tui.running

====
